---- MODULE Spec2Model ----
(***************************************************************************)
(* A model of calo's target-validation and safe-execution pipeline:        *)
(*   backend  HostValidatorService, SsrfGuardService, ToolRunsService      *)
(*   worker   job processor (index.ts), RateLimiter, ToolExecutor          *)
(* Text (host names, IP addresses, error messages) is modelled as          *)
(* sequences of one-character strings so that prefix, suffix and           *)
(* substring tests are computed as the code computes them.                 *)
(***************************************************************************)
EXTENDS Integers, Sequences, FiniteSets, TLC

(***************************************************************************)
(* Text helpers (String.prototype methods used by the code)                *)
(***************************************************************************)
StartsWith(s, p) ==
    Len(s) >= Len(p) /\ SubSeq(s, 1, Len(p)) = p

EndsWith(s, p) ==
    Len(s) >= Len(p) /\ SubSeq(s, Len(s) - Len(p) + 1, Len(s)) = p

Includes(s, p) ==
    \E i \in 1..(Len(s) - Len(p) + 1) : SubSeq(s, i, i + Len(p) - 1) = p

\* s.split(c): the parts of s between the occurrences of the character c
RECURSIVE Split(_, _)
Split(s, c) ==
    IF \A i \in 1..Len(s) : s[i] # c
    THEN <<s>>
    ELSE LET k == CHOOSE i \in 1..Len(s) :
                     s[i] = c /\ \A j \in 1..(i - 1) : s[j] # c
         IN  <<SubSeq(s, 1, k - 1)>> \o Split(SubSeq(s, k + 1, Len(s)), c)

\* parts.join(c)
RECURSIVE Join(_, _)
Join(parts, c) ==
    IF Len(parts) = 0 THEN <<>>
    ELSE IF Len(parts) = 1 THEN parts[1]
    ELSE parts[1] \o <<c>> \o Join(Tail(parts), c)

UpperCase ==
    <<"A","B","C","D","E","F","G","H","I","J","K","L","M",
      "N","O","P","Q","R","S","T","U","V","W","X","Y","Z">>

LowerCase ==
    <<"a","b","c","d","e","f","g","h","i","j","k","l","m",
      "n","o","p","q","r","s","t","u","v","w","x","y","z">>

Digits ==
    <<"0","1","2","3","4","5","6","7","8","9">>

Range(f) ==
    {f[i] : i \in DOMAIN f}

LowerChar(c) ==
    IF c \in Range(UpperCase)
    THEN LowerCase[CHOOSE i \in 1..26 : UpperCase[i] = c]
    ELSE c

ToLowerCase(s) ==
    [i \in 1..Len(s) |-> LowerChar(s[i])]

RECURSIVE Trim(_)
Trim(s) ==
    IF Len(s) > 0 /\ s[1] = " " THEN Trim(Tail(s))
    ELSE IF Len(s) > 0 /\ s[Len(s)] = " " THEN Trim(SubSeq(s, 1, Len(s) - 1))
    ELSE s

\* s.replace(/\.+$/, '')
RECURSIVE StripTrailingDots(_)
StripTrailingDots(s) ==
    IF Len(s) > 0 /\ s[Len(s)] = "."
    THEN StripTrailingDots(SubSeq(s, 1, Len(s) - 1))
    ELSE s

IsDigit(c) ==
    c \in Range(Digits)

IsAlnum(c) ==
    c \in Range(Digits) \cup Range(LowerCase) \cup Range(UpperCase)

DigitVal(c) ==
    (CHOOSE i \in 1..10 : Digits[i] = c) - 1

\* Number("123") for a string of decimal digits
RECURSIVE ToNumber(_)
ToNumber(s) ==
    IF Len(s) = 0 THEN 0
    ELSE 10 * ToNumber(SubSeq(s, 1, Len(s) - 1)) + DigitVal(s[Len(s)])

S_http ==
    <<"h","t","t","p",":","/","/">>

S_https ==
    <<"h","t","t","p","s",":","/","/">>

\* s.replace(/^https?:\/\//i, '')
StripScheme(s) ==
    IF StartsWith(ToLowerCase(s), S_https) THEN SubSeq(s, 9, Len(s))
    ELSE IF StartsWith(ToLowerCase(s), S_http) THEN SubSeq(s, 8, Len(s))
    ELSE s


(***************************************************************************)
(* HostValidatorService (backend/src/security/host-validator.service.ts)   *)
(***************************************************************************)
S_local == <<"l","o","c","a","l">>

S_localhost == <<"l","o","c","a","l","h","o","s","t">>

S_internal == <<"i","n","t","e","r","n","a","l">>

S_intranet == <<"i","n","t","r","a","n","e","t">>

S_corp == <<"c","o","r","p">>

S_home == <<"h","o","m","e">>

S_lan == <<"l","a","n">>

S_localdomain == <<"l","o","c","a","l","d","o","m","a","i","n">>

BLOCKED_TLDS ==
    {S_local, S_localhost, S_internal, S_intranet, S_corp, S_home, S_lan,
     S_localdomain}

\* /^172\.(1[6-9]|2[0-9]|3[0-1])\./
Matches172(h) ==
    /\ StartsWith(h, <<"1","7","2",".">>)
    /\ Len(h) >= 7
    /\ IsDigit(h[5]) /\ IsDigit(h[6]) /\ h[7] = "."
    /\ ToNumber(SubSeq(h, 5, 6)) \in 16..31

\* DANGEROUS_PATTERNS.some(pattern => pattern.test(h)); h is already lower case
MatchesDangerousPattern(h) ==
    \/ h = S_localhost
    \/ StartsWith(h, <<"1","2","7",".">>)
    \/ StartsWith(h, <<"1","0",".">>)
    \/ Matches172(h)
    \/ StartsWith(h, <<"1","9","2",".","1","6","8",".">>)
    \/ StartsWith(h, <<"1","6","9",".","2","5","4",".">>)
    \/ h = <<":",":","1">>
    \/ StartsWith(h, <<"f","c","0","0",":">>)
    \/ StartsWith(h, <<"f","e","8","0",":">>)
    \/ StartsWith(h, <<"f","d">>)
    \/ h = <<"0",".","0",".","0",".","0">>
    \/ (Len(h) >= 2 /\ h[1] = "[" /\ h[Len(h)] = "]")
    \/ StartsWith(h, <<"m","e","t","a","d","a","t","a",".">>)
    \/ h = <<"1","6","9",".","2","5","4",".","1","6","9",".","2","5","4">>
    \/ StartsWith(h, <<"m","e","t","a","d","a","t","a",".","g","o","o","g","l","e",".">>)

\* one segment of net.isIPv4: 25[0-5]|2[0-4]\d|1\d\d|[1-9]?\d
IsV4Segment(p) ==
    /\ Len(p) \in 1..3
    /\ \A i \in 1..Len(p) : IsDigit(p[i])
    /\ (Len(p) > 1 => p[1] # "0")
    /\ ToNumber(p) <= 255

\* net.isIP(h) # 0.  The caller passes host.split(':')[0], which holds no
\* colon, so only the IPv4 form can match.
IsIP(h) ==
    LET parts == Split(h, ".")
    IN  Len(parts) = 4 /\ \A i \in 1..4 : IsV4Segment(parts[i])

\* /^\[.*\]/
MatchesBracket(h) ==
    Len(h) >= 2 /\ h[1] = "[" /\ \E i \in 2..Len(h) : h[i] = "]"

\* [a-z0-9]([a-z0-9-]*[a-z0-9])?
IsLabel(l) ==
    /\ Len(l) >= 1
    /\ \A i \in 1..Len(l) : IsAlnum(l[i]) \/ l[i] = "-"
    /\ IsAlnum(l[1]) /\ IsAlnum(l[Len(l)])

\* /^label(\.label)*$/i
IsHostnameFormat(h) ==
    LET labels == Split(h, ".")
    IN  \A i \in 1..Len(labels) : IsLabel(labels[i])

\* The public suffix list of the psl package, cut to the suffixes the
\* enumerated hosts use.
PublicSuffixes ==
    {<<"c","o","m">>, <<"o","r","g">>, <<"u","k">>, <<"c","o",".","u","k">>}

\* psl.parse(h): the longest listed suffix is the tld, the registrable
\* domain is the tld with one more label (<<>> stands for null)
PslParse(h) ==
    LET labels == Split(h, ".")
        n == Len(labels)
        suffixOf(k) == Join(SubSeq(labels, n - k + 1, n), ".")
        listedK == {k \in 1..n : suffixOf(k) \in PublicSuffixes}
        k == IF listedK = {} THEN 1
             ELSE CHOOSE x \in listedK : \A y \in listedK : y <= x
    IN  [listed |-> listedK # {},
         tld    |-> suffixOf(k),
         domain |-> IF n > k THEN suffixOf(k + 1) ELSE <<>>]

HostError(reason) ==
    [ok |-> FALSE, reason |-> reason, normalizedHost |-> <<>>, etldPlusOne |-> <<>>]

\* validateHost(host): the thrown BadRequestException is ok = FALSE
ValidateHost(host) ==
    LET lowered == StripTrailingDots(Trim(ToLowerCase(host)))
        noScheme == StripScheme(lowered)
        noPath == Split(Split(Split(noScheme, "/")[1], "?")[1], "#")[1]
        hostWithoutPort == Split(noPath, ":")[1]
        parts == Split(hostWithoutPort, ".")
        tld == parts[Len(parts)]
        parsed == PslParse(hostWithoutPort)
    IN  IF Len(host) = 0 THEN HostError("required")
        ELSE IF IsIP(hostWithoutPort) THEN HostError("ip")
        ELSE IF MatchesBracket(hostWithoutPort) THEN HostError("ipv6")
        ELSE IF MatchesDangerousPattern(hostWithoutPort) THEN HostError("internal")
        ELSE IF ~IsHostnameFormat(hostWithoutPort) THEN HostError("format")
        ELSE IF tld \in BLOCKED_TLDS THEN HostError("tld")
        ELSE IF parsed.domain = <<>> THEN HostError("nodomain")
        ELSE IF ~parsed.listed THEN HostError("unlisted")
        ELSE [ok |-> TRUE, reason |-> "none",
              normalizedHost |-> hostWithoutPort,
              etldPlusOne |-> parsed.domain]

\* new URL(url).hostname for an http(s) URL: the authority up to the path,
\* without userinfo and port, lower-cased; <<>> when the URL has no host
UrlHostname(url) ==
    LET rest == StripScheme(url)
        authority == Split(Split(Split(rest, "/")[1], "?")[1], "#")[1]
        atParts == Split(authority, "@")
        hostPort == atParts[Len(atParts)]
    IN  IF Len(hostPort) > 0 /\ hostPort[1] = "["
        THEN ToLowerCase(hostPort)
        ELSE ToLowerCase(Split(hostPort, ":")[1])

\* validateUrl(url)
ValidateUrl(url) ==
    LET full == IF StartsWith(ToLowerCase(url), S_http) \/ StartsWith(ToLowerCase(url), S_https)
                THEN url ELSE S_https \o url
        hostname == UrlHostname(full)
    IN  IF Len(url) = 0 THEN HostError("required")
        ELSE IF Len(hostname) = 0 THEN HostError("url")
        ELSE ValidateHost(hostname)

\* fault variant of IsSubdomainOf: the suffix test without the dot boundary
IsSubdomainOfNoDot(subdomain, baseDomain) ==
    LET sub == ValidateHost(subdomain)
        base == ValidateHost(baseDomain)
    IN  IF ~sub.ok \/ ~base.ok THEN "throws"
        ELSE IF sub.etldPlusOne # base.etldPlusOne THEN "false"
        ELSE IF EndsWith(sub.normalizedHost, base.normalizedHost)
             THEN "true" ELSE "false"

\* isSubdomainOf(subdomain, baseDomain); a throw of validateHost is "throws"
IsSubdomainOf(subdomain, baseDomain) ==
    LET sub == ValidateHost(subdomain)
        base == ValidateHost(baseDomain)
    IN  IF ~sub.ok \/ ~base.ok THEN "throws"
        ELSE IF sub.etldPlusOne # base.etldPlusOne THEN "false"
        ELSE IF \/ sub.normalizedHost = base.normalizedHost
                \/ EndsWith(sub.normalizedHost, <<".">> \o base.normalizedHost)
             THEN "true" ELSE "false"

\* one turn of the loop of validateTargetInScope over approvedDomains
ApprovedMatches(targetHost, approved) ==
    LET a == ValidateHost(approved)
    IN  /\ a.ok
        /\ \/ targetHost = a.normalizedHost
           \/ IsSubdomainOf(targetHost, a.normalizedHost) = "true"

\* validateTargetInScope(target, approvedDomains): TRUE, or FALSE for a throw
ValidateTargetInScope(target, approvedDomains) ==
    LET t == ValidateHost(target)
    IN  /\ Len(approvedDomains) # 0
        /\ t.ok
        /\ \E i \in 1..Len(approvedDomains) :
               ApprovedMatches(t.normalizedHost, approvedDomains[i])


(***************************************************************************)
(* SsrfGuardService (backend/src/security/ssrf-guard.service.ts)           *)
(* An unsigned 32-bit number is the pair <<high 16 bits, low 16 bits>>.    *)
(***************************************************************************)
\* x << 24 on a 32-bit signed integer, for an octet x in 0..255
Shl24(x) ==
    IF x >= 128 THEN (x - 256) * 16777216 ELSE x * 16777216

\* fault variant of ToUint32: the sum kept signed (no >>> 0)
ToInt32(n) ==
    <<n \div 65536, n % 65536>>

\* n >>> 0: the unsigned 32-bit value of the signed 32-bit number n
ToUint32(n) ==
    <<(n \div 65536) % 65536, n % 65536>>

\* ipToNumber(ip): (p0 << 24) + (p1 << 16) + (p2 << 8) + p3 >>> 0
IpToNumber(ip) ==
    LET parts == Split(ip, ".")
        p(i) == ToNumber(parts[i])
    IN  ToUint32(Shl24(p(1)) + p(2) * 65536 + p(3) * 256 + p(4))

\* a <= b on unsigned 32-bit numbers
U32Leq(a, b) ==
    a[1] < b[1] \/ (a[1] = b[1] /\ a[2] <= b[2])

BLOCKED_IP_RANGES ==
    <<[start |-> IpToNumber(<<"0",".","0",".","0",".","0">>),
       end   |-> IpToNumber(<<"0",".","2","5","5",".","2","5","5",".","2","5","5">>)],
      [start |-> IpToNumber(<<"1","0",".","0",".","0",".","0">>),
       end   |-> IpToNumber(<<"1","0",".","2","5","5",".","2","5","5",".","2","5","5">>)],
      [start |-> IpToNumber(<<"1","0","0",".","6","4",".","0",".","0">>),
       end   |-> IpToNumber(<<"1","0","0",".","1","2","7",".","2","5","5",".","2","5","5">>)],
      [start |-> IpToNumber(<<"1","2","7",".","0",".","0",".","0">>),
       end   |-> IpToNumber(<<"1","2","7",".","2","5","5",".","2","5","5",".","2","5","5">>)],
      [start |-> IpToNumber(<<"1","6","9",".","2","5","4",".","0",".","0">>),
       end   |-> IpToNumber(<<"1","6","9",".","2","5","4",".","2","5","5",".","2","5","5">>)],
      [start |-> IpToNumber(<<"1","7","2",".","1","6",".","0",".","0">>),
       end   |-> IpToNumber(<<"1","7","2",".","3","1",".","2","5","5",".","2","5","5">>)],
      [start |-> IpToNumber(<<"1","9","2",".","0",".","0",".","0">>),
       end   |-> IpToNumber(<<"1","9","2",".","0",".","0",".","2","5","5">>)],
      [start |-> IpToNumber(<<"1","9","2",".","0",".","2",".","0">>),
       end   |-> IpToNumber(<<"1","9","2",".","0",".","2",".","2","5","5">>)],
      [start |-> IpToNumber(<<"1","9","2",".","1","6","8",".","0",".","0">>),
       end   |-> IpToNumber(<<"1","9","2",".","1","6","8",".","2","5","5",".","2","5","5">>)],
      [start |-> IpToNumber(<<"1","9","8",".","1","8",".","0",".","0">>),
       end   |-> IpToNumber(<<"1","9","8",".","1","9",".","2","5","5",".","2","5","5">>)],
      [start |-> IpToNumber(<<"1","9","8",".","5","1",".","1","0","0",".","0">>),
       end   |-> IpToNumber(<<"1","9","8",".","5","1",".","1","0","0",".","2","5","5">>)],
      [start |-> IpToNumber(<<"2","0","3",".","0",".","1","1","3",".","0">>),
       end   |-> IpToNumber(<<"2","0","3",".","0",".","1","1","3",".","2","5","5">>)],
      [start |-> IpToNumber(<<"2","2","4",".","0",".","0",".","0">>),
       end   |-> IpToNumber(<<"2","3","9",".","2","5","5",".","2","5","5",".","2","5","5">>)],
      [start |-> IpToNumber(<<"2","4","0",".","0",".","0",".","0">>),
       end   |-> IpToNumber(<<"2","5","5",".","2","5","5",".","2","5","5",".","2","5","5">>)]>>

\* isPrivateIPv4(ip)
IsPrivateIPv4(ip) ==
    LET ipNum == IpToNumber(ip)
    IN  \E i \in 1..Len(BLOCKED_IP_RANGES) :
            /\ U32Leq(BLOCKED_IP_RANGES[i].start, ipNum)
            /\ U32Leq(ipNum, BLOCKED_IP_RANGES[i].end)

\* isPrivateIPv6(ip)
IsPrivateIPv6(ip) ==
    LET normalized == ToLowerCase(ip)
    IN  \/ normalized = <<":",":","1">>
        \/ StartsWith(normalized, <<"f","e","8","0",":">>)
        \/ StartsWith(normalized, <<"f","c">>)
        \/ StartsWith(normalized, <<"f","d">>)
        \/ StartsWith(normalized, <<":",":","f","f","f","f",":","1","2","7",".">>)
        \/ StartsWith(normalized, <<":",":","f","f","f","f",":","1","0",".">>)
        \/ StartsWith(normalized, <<":",":","f","f","f","f",":","1","7","2",".">>)
        \/ StartsWith(normalized, <<":",":","f","f","f","f",":","1","9","2",".","1","6","8",".">>)

\* for (const ip of v4Addresses) if (this.isPrivateIPv4(ip)) throw ...
HasPrivateV4(records) ==
    \E i \in 1..Len(records) : IsPrivateIPv4(records[i])

\* for (const ip of v6Addresses) if (this.isPrivateIPv6(ip)) throw ...
HasPrivateV6(records) ==
    \E i \in 1..Len(records) : IsPrivateIPv6(records[i])

\* a throw of validateDnsResolution; queried holds the resolver calls made
\* before it
DnsError(reason, queried) ==
    [ok |-> FALSE, reason |-> reason, queried |-> queried,
     ipv4Addresses |-> <<>>, ipv6Addresses |-> <<>>]

\* validateDnsResolution(hostname) when the resolver answers `answer`:
\* answer.a and answer.aaaa are the records dns.resolve4 / dns.resolve6
\* return; an empty family is the rejected lookup (ENODATA, ENOTFOUND),
\* which the catch blocks swallow.
ValidateDnsResolution(hostname, answer) ==
    IF ~ValidateHost(hostname).ok THEN DnsError("host", <<>>)
    ELSE IF HasPrivateV4(answer.a) THEN DnsError("private", <<"resolve4">>)
    ELSE IF HasPrivateV6(answer.aaaa)
         THEN DnsError("private", <<"resolve4", "resolve6">>)
    ELSE IF Len(answer.a) = 0 /\ Len(answer.aaaa) = 0
         THEN DnsError("unresolvable", <<"resolve4", "resolve6">>)
    ELSE [ok |-> TRUE, reason |-> "none", queried |-> <<"resolve4", "resolve6">>,
          ipv4Addresses |-> answer.a, ipv6Addresses |-> answer.aaaa]

\* a throw of validateRequestTarget; queried holds the resolver calls made
\* before it
TargetError(reason, queried) ==
    [ok |-> FALSE, reason |-> reason, queried |-> queried, host |-> <<>>,
     resolvedIps |-> <<>>]

\* fault variant of ValidateRequestTarget: the name is resolved before the
\* scope check
ValidateRequestTargetDnsFirst(url, approvedDomains, answer) ==
    LET urlValidation == ValidateUrl(url)
        host == urlValidation.normalizedHost
        dnsResult == ValidateDnsResolution(host, answer)
    IN  IF ~urlValidation.ok THEN TargetError(urlValidation.reason, <<>>)
        ELSE IF ~dnsResult.ok THEN TargetError(dnsResult.reason, dnsResult.queried)
        ELSE IF ~ValidateTargetInScope(host, approvedDomains)
             THEN TargetError("scope", dnsResult.queried)
        ELSE [ok |-> TRUE, reason |-> "none", queried |-> dnsResult.queried,
              host |-> host,
              resolvedIps |-> dnsResult.ipv4Addresses \o dnsResult.ipv6Addresses]

\* validateRequestTarget(url, approvedDomains)
ValidateRequestTarget(url, approvedDomains, answer) ==
    LET urlValidation == ValidateUrl(url)
        host == urlValidation.normalizedHost
        dnsResult == ValidateDnsResolution(host, answer)
    IN  IF ~urlValidation.ok THEN TargetError(urlValidation.reason, <<>>)
        ELSE IF ~ValidateTargetInScope(host, approvedDomains)
             THEN TargetError("scope", <<>>)
        ELSE IF ~dnsResult.ok THEN TargetError(dnsResult.reason, dnsResult.queried)
        ELSE [ok |-> TRUE, reason |-> "none", queried |-> dnsResult.queried,
              host |-> host,
              resolvedIps |-> dnsResult.ipv4Addresses \o dnsResult.ipv6Addresses]

\* validateToolTarget(target, assessmentDomains)
ValidateToolTarget(target, assessmentDomains, answer) ==
    ValidateRequestTarget(
        IF Includes(target, <<":","/","/">>) THEN target ELSE S_https \o target,
        assessmentDomains, answer)


(***************************************************************************)
(* The enumerated inputs: targets, approved-domain lists, IP addresses,    *)
(* DNS answers and error messages                                          *)
(***************************************************************************)
T_SUB ==
    <<"s","u","b",".","a","p","p","r","o","v","e","d",".","c","o","m">>

T_APEX ==
    <<"a","p","p","r","o","v","e","d",".","c","o","m">>

T_URL ==
    <<"h","t","t","p","s",":","/","/","S","u","b",".","A","p","p","r","o","v","e","d",".","c","o","m",":","8","4","4","3","/","x">>

T_EVIL ==
    <<"e","v","i","l","a","p","p","r","o","v","e","d",".","c","o","m">>

T_IP ==
    <<"1","9","2",".","1","6","8",".","1",".","5">>

T_OTHER ==
    <<"a","p","i",".","e","x","a","m","p","l","e",".","o","r","g">>

T_LOCAL ==
    <<"d","b",".","i","n","t","e","r","n","a","l">>

T_FD ==
    <<"f","d",".","a","p","p","r","o","v","e","d",".","c","o","m">>

T_SUFFIX ==
    <<"c","o","m">>

D_APPROVED ==
    <<"a","p","p","r","o","v","e","d",".","c","o","m">>

D_EXAMPLE ==
    <<"e","x","a","m","p","l","e",".","o","r","g">>

A_PUB4 ==
    <<"9","3",".","1","8","4",".","2","1","6",".","3","4">>

A_PUB4B ==
    <<"1","5","1",".","1","0","1",".","1",".","6","9">>

A_PRIV10 ==
    <<"1","0",".","0",".","0",".","5">>

A_PRIV192 ==
    <<"1","9","2",".","1","6","8",".","1",".","1","0">>

A_TESTNET ==
    <<"2","0","3",".","0",".","1","1","3",".","5">>

A_PUB6 ==
    <<"2","6","0","6",":","2","8","0","0",":","2","2","0",":","1",":",":","1","9","4","6">>

A_LL6 ==
    <<"f","e","8","0",":",":","1">>

A_LL6B ==
    <<"f","e","9","0",":",":","1">>

A_MAPPED ==
    <<":",":","f","f","f","f",":","1","6","9",".","2","5","4",".","1","6","9",".","2","5","4">>

T_EVILSUB ==
    <<"e","v","i","l">> \o T_SUB

T_BRACKET ==
    <<"[",":",":","1","]">>

T_MALFORMED ==
    <<"s","u","b","_","x",".","a","p","p","r","o","v","e","d",".","c","o","m">>

Targets ==
    {T_SUB, T_APEX, T_URL, T_EVIL, T_IP, T_OTHER, T_LOCAL, T_FD, T_SUFFIX,
     T_EVILSUB, T_BRACKET, T_MALFORMED, A_LL6}

\* the lists the approved-domain table of the assessment can hold
ApprovedLists ==
    {<<>>, <<D_APPROVED>>, <<D_EXAMPLE, D_APPROVED>>, <<T_IP, D_EXAMPLE>>,
     <<T_SUB>>}

\* What the resolver answers for the queried name: the A and the AAAA
\* records, in the order returned.
DnsAnswer(name) ==
    CASE name = "public"     -> [a |-> <<A_PUB4>>,            aaaa |-> <<>>]
      [] name = "public46"   -> [a |-> <<A_PUB4B>>,           aaaa |-> <<A_PUB6>>]
      [] name = "only6"      -> [a |-> <<>>,                  aaaa |-> <<A_PUB6>>]
      [] name = "private"    -> [a |-> <<A_PRIV10>>,          aaaa |-> <<>>]
      [] name = "mixedLast"  -> [a |-> <<A_PUB4, A_PRIV192>>, aaaa |-> <<>>]
      [] name = "mixedFirst" -> [a |-> <<A_PRIV10, A_PUB4>>,  aaaa |-> <<A_PUB6>>]
      [] name = "testnet"    -> [a |-> <<A_TESTNET>>,         aaaa |-> <<>>]
      [] name = "loop6"      -> [a |-> <<A_PUB4>>,            aaaa |-> <<A_PUB6, A_LL6>>]
      [] name = "link6"      -> [a |-> <<A_PUB4>>,            aaaa |-> <<A_LL6B>>]
      [] name = "mapped6"    -> [a |-> <<>>,                  aaaa |-> <<A_MAPPED>>]
      [] name = "nxdomain"   -> [a |-> <<>>,                  aaaa |-> <<>>]

DnsNames ==
    {"public", "public46", "only6", "private", "mixedLast", "mixedFirst",
     "testnet", "loop6", "link6", "mapped6", "nxdomain"}

\* the answers the resolver gives while a run goes through the pipeline
PipelineDnsNames ==
    {"public", "public46", "link6", "private", "nxdomain"}

\* the addresses of an answer, as a set
AnswerAddresses(name) ==
    Range(DnsAnswer(name).a) \cup Range(DnsAnswer(name).aaaa)

ToolNames ==
    {"TLS_CHECK", "HEADER_CHECK", "SECURITY_HEADERS", "CORS_CHECK",
     "DNS_LOOKUP", "CERT_TRANSPARENCY", "TECH_FINGERPRINT"}

\* a tool name outside the enumeration, as a request can carry one
RequestedTools ==
    ToolNames \cup {"PORT_SCAN"}

M_LIMIT ==
    <<"M","a","x","i","m","u","m"," ","r","e","q","u","e","s","t"," ","l","i","m","i","t"," ","(","5","0",")"," ","r","e","a","c","h","e","d","."," ","T","h","i","s"," ","l","i","m","i","t"," ","e","x","i","s","t","s"," ","t","o"," ","p","r","e","v","e","n","t"," ","o","v","e","r","w","h","e","l","m","i","n","g"," ","t","a","r","g","e","t"," ","s","y","s","t","e","m","s",".">>

M_TIMER ==
    <<"T","o","o","l"," ","e","x","e","c","u","t","i","o","n"," ","t","i","m","e","d"," ","o","u","t"," ","a","f","t","e","r"," ","3","0","0","0","0","m","s">>

M_REQ ==
    <<"R","e","q","u","e","s","t"," ","t","i","m","e","o","u","t">>

M_CONN ==
    <<"c","o","n","n","e","c","t"," ","E","C","O","N","N","R","E","F","U","S","E","D">>

M_POOL ==
    <<"T","i","m","e","d"," ","o","u","t"," ","f","e","t","c","h","i","n","g"," ","a"," ","n","e","w"," ","c","o","n","n","e","c","t","i","o","n"," ","f","r","o","m"," ","t","h","e"," ","c","o","n","n","e","c","t","i","o","n"," ","p","o","o","l"," ","(","C","u","r","r","e","n","t"," ","c","o","n","n","e","c","t","i","o","n"," ","p","o","o","l"," ","t","i","m","e","o","u","t",":"," ","1","0",")">>

M_UNKNOWN ==
    <<"U","n","k","n","o","w","n"," ","t","o","o","l">>

S_timeout ==
    <<"t","i","m","e","o","u","t">>

\* error.message of the errors the model names
MessageText(e) ==
    CASE e = "limit"   -> M_LIMIT
      [] e = "timer"   -> M_TIMER
      [] e = "request" -> M_REQ
      [] e = "conn"    -> M_CONN
      [] e = "pool"    -> M_POOL
      [] e = "unknown" -> M_UNKNOWN

\* what a failing collaborator (the database, the blob store) throws
ExternalErrors ==
    {"conn", "pool"}


(***************************************************************************)
(* Bounds and configuration                                                *)
(***************************************************************************)
\* run ids 1..MaxRuns; the jobs started together in SpecN
MaxRuns == 3

\* TOOL_RATE_LIMIT_MS in ticks of the model's clock (the default is 1000 ms)
minDelayMs == 2

\* the clock stops advancing after MaxTicks ticks
MaxTicks == 6

\* the waitForRequestSlot calls for one run id that SpecC lets overlap
MaxCallers == 2

Callers ==
    1..MaxCallers

\* Date.now() when the worker starts: later than minDelayMs after the epoch
StartClock ==
    minDelayMs + 1

\* the runs the API creates in Spec
PipelineRuns == 1

\* a small TOOL_MAX_REQUESTS_PER_RUN, below the six requests of DNS_LOOKUP
SmallBudget == 3

\* TOOL_MAX_REQUESTS_PER_RUN || '50'
DefaultMaxRequests == 50

\* queue.add(..., { attempts: 1 })
attempts == 1

\* TOOL_MAX_CONCURRENT || '2' (the rate limiter's maxConcurrent)
maxConcurrent == 2

\* Fault variant of the Worker option: one job more than the rate limiter
\* has slots
WorkerConcurrencyAbove ==
    maxConcurrent + 1

\* the Worker option concurrency: TOOL_MAX_CONCURRENT || '2'
WorkerConcurrency == 2

Runs ==
    1..MaxRuns

TerminalStatuses ==
    {"COMPLETED", "FAILED", "TIMEOUT", "CANCELLED"}

VARIABLES
    approvedDomains,         \* the approvedDomain rows of the assessment
    dns,                     \* the name of the answer the resolver gives now
    status,                  \* toolRun.status per run id, "none": no record
    target,                  \* toolRun.target
    toolName,                \* toolRun.toolName
    backendActiveExecutions, \* RateLimiterService.activeExecutions (backend)
    maxRequestsPerRun,       \* config.maxRequestsPerRun of the worker
    activeExecutions,        \* RateLimiter.activeExecutions (worker)
    requestCount,            \* RateLimiter.runStates[r].requestCount
    pc,                      \* where the job of run r is in the processor
    it,                      \* waitForRequestSlot calls returned in execute
    err,                     \* the error the processor caught or threw
    cancelSeen,              \* the status cancel(id) read, "none": no cancel
    validated,               \* history: the DNS answer enqueue validated
    lastConn,                \* history: the last connection a probe made
    ops,                     \* history: outbound operations issued per run
    timerFired,              \* history: a withTimeout timer fired in the run
    cancelAccepted,          \* history: a cancel of a QUEUED/RUNNING run went through
    enqueueResult,           \* history: how the last enqueue call ended
    attemptsMade,            \* job.attemptsMade: failed attempts of the run's job
    redactions,              \* history: redactOutput passes over the text a run uploaded
    clock,                   \* SpecT, SpecC: Date.now()
    lastRequestTime,         \* RateLimiter.runStates[r].lastRequestTime
    callPc,                  \* SpecT, SpecC: where each waitForRequestSlot call is
    wakeAt,                  \* SpecT, SpecC: when the call's sleep timer is due
    vIn,                     \* SpecV: the input of validateToolTarget
    vOut                     \* SpecV: its result

vars ==
    <<approvedDomains, dns, status, target, toolName, backendActiveExecutions,
      maxRequestsPerRun, activeExecutions, requestCount, pc, it, err,
      cancelSeen, validated, lastConn, ops, timerFired, cancelAccepted,
      enqueueResult, attemptsMade, redactions, clock, lastRequestTime, callPc,
      wakeAt, vIn, vOut>>

timeVars ==
    <<clock, lastRequestTime, callPc, wakeAt>>

envVars ==
    <<approvedDomains, dns, backendActiveExecutions, maxRequestsPerRun,
      enqueueResult, attemptsMade, redactions, timeVars, vIn, vOut>>

NoConn ==
    [run |-> 0, addr |-> <<>>]

NoInput ==
    [target |-> <<>>, approved |-> <<>>, answer |-> "nxdomain"]

\* validateToolTarget has not returned
NoResult ==
    [ok |-> FALSE, reason |-> "pending", queried |-> <<>>, host |-> <<>>,
     resolvedIps |-> <<>>]

\* the value of redactions[r] while run r has uploaded nothing
NotUploaded ==
    0 - 1

\* The clock when the worker starts, and no waitForRequestSlot call made
InitTime ==
    /\ clock = StartClock
    /\ lastRequestTime = [r \in Runs |-> 0]
    /\ callPc = [c \in Callers |-> "idle"]
    /\ wakeAt = [c \in Callers |-> 0]

\* The state after construction: no run, no job, counters at 0
InitPipeline ==
    /\ InitTime
    /\ redactions = [r \in Runs |-> NotUploaded]
    /\ attemptsMade = [r \in Runs |-> 0]
    /\ enqueueResult = "none"
    /\ status = [r \in Runs |-> "none"]
    /\ target = [r \in Runs |-> <<>>]
    /\ toolName = [r \in Runs |-> "none"]
    /\ backendActiveExecutions = 0
    /\ activeExecutions = 0
    /\ requestCount = [r \in Runs |-> 0]
    /\ pc = [r \in Runs |-> "none"]
    /\ it = [r \in Runs |-> 0]
    /\ err = [r \in Runs |-> "none"]
    /\ cancelSeen = [r \in Runs |-> "none"]
    /\ validated = [r \in Runs |-> "none"]
    /\ lastConn = NoConn
    /\ ops = [r \in Runs |-> 0]
    /\ timerFired = [r \in Runs |-> FALSE]
    /\ cancelAccepted = [r \in Runs |-> FALSE]

Init ==
    /\ InitPipeline
    /\ approvedDomains = <<D_APPROVED>>
    /\ dns = "public"
    /\ maxRequestsPerRun \in {SmallBudget, DefaultMaxRequests}
    /\ vIn = NoInput
    /\ vOut = NoResult

(***************************************************************************)
(* ToolRunsService (backend/src/tool-runs/tool-runs.service.ts)            *)
(***************************************************************************)
\* canStartExecution() of the backend's RateLimiterService
CanStartExecution ==
    backendActiveExecutions < maxConcurrent

\* fault variant of EnqueueOutcome: the allowed-tools test of step 5 left out
EnqueueOutcomeAnyTool(tgt, tool, dryRun, assessmentExists) ==
    IF ~assessmentExists THEN "notFound"
    ELSE IF Len(approvedDomains) = 0 THEN "noApprovedDomains"
    ELSE IF ~ValidateToolTarget(tgt, approvedDomains, DnsAnswer(dns)).ok THEN "targetRejected"
    ELSE IF ~CanStartExecution THEN "concurrencyLimit"
    ELSE IF dryRun THEN "dryRun"
    ELSE "queued"

\* fault variant of EnqueueOutcome: an empty approved-domain list is taken
\* as "no restriction" and the target is not validated
EnqueueOutcomeFailOpen(tgt, tool, dryRun, assessmentExists) ==
    IF ~assessmentExists THEN "notFound"
    ELSE IF /\ Len(approvedDomains) # 0
            /\ ~ValidateToolTarget(tgt, approvedDomains, DnsAnswer(dns)).ok
         THEN "targetRejected"
    ELSE IF ~CanStartExecution THEN "concurrencyLimit"
    ELSE IF tool \notin ToolNames THEN "toolNotAvailable"
    ELSE IF dryRun THEN "dryRun"
    ELSE "queued"

\* Steps 1-6 of enqueue: the exception thrown, "dryRun", or "queued"
EnqueueOutcome(tgt, tool, dryRun, assessmentExists) ==
    IF ~assessmentExists THEN "notFound"
    ELSE IF Len(approvedDomains) = 0 THEN "noApprovedDomains"
    ELSE IF ~ValidateToolTarget(tgt, approvedDomains, DnsAnswer(dns)).ok THEN "targetRejected"
    ELSE IF ~CanStartExecution THEN "concurrencyLimit"
    ELSE IF tool \notin ToolNames THEN "toolNotAvailable"
    ELSE IF dryRun THEN "dryRun"
    ELSE "queued"

\* the id prisma.toolRun.create gives the new record
NextRunId ==
    CHOOSE r \in Runs : status[r] = "none" /\ \A q \in Runs : q < r => status[q] # "none"

\* what enqueue leaves alone when it creates a run
enqueueFrame ==
    <<approvedDomains, dns, backendActiveExecutions, maxRequestsPerRun,
      attemptsMade, redactions, timeVars, vIn, vOut, activeExecutions,
      requestCount, it, err, cancelSeen, lastConn, ops, timerFired,
      cancelAccepted>>

\* enqueue(request, userId): on "queued" the record is created QUEUED and
\* the job added to the queue; every other outcome changes nothing
Enqueue(limit, tgt, tool, dryRun, assessmentExists) ==
    /\ Cardinality({r \in Runs : status[r] # "none"}) < limit
    /\ \E outcome \in {EnqueueOutcome(tgt, tool, dryRun, assessmentExists)} :
           /\ enqueueResult' = outcome
           /\ IF outcome = "queued"
              THEN /\ status' = [status EXCEPT ![NextRunId] = "QUEUED"]
                   /\ target' = [target EXCEPT ![NextRunId] = tgt]
                   /\ toolName' = [toolName EXCEPT ![NextRunId] = tool]
                   /\ pc' = [pc EXCEPT ![NextRunId] = "queued"]
                   /\ validated' = [validated EXCEPT ![NextRunId] = dns]
                   /\ UNCHANGED enqueueFrame
              ELSE UNCHANGED <<enqueueFrame, status, target, toolName, pc,
                               validated>>

\* cancel(id), first half: findOne(id) and the status test
CancelFind(r) ==
    /\ status[r] # "none"
    /\ cancelSeen[r] = "none"
    /\ status[r] \notin {"COMPLETED", "FAILED"}
    /\ cancelSeen' = [cancelSeen EXCEPT ![r] = status[r]]
    /\ UNCHANGED <<envVars, status, target, toolName, activeExecutions,
                   requestCount, pc, it, err, validated, lastConn, ops,
                   timerFired, cancelAccepted>>

\* cancel(id), second half: prisma.toolRun.update to CANCELLED
CancelUpdate(r) ==
    /\ cancelSeen[r] # "none"
    /\ status' = [status EXCEPT ![r] = "CANCELLED"]
    /\ cancelAccepted' = [cancelAccepted EXCEPT ![r] =
                             @ \/ cancelSeen[r] \in {"QUEUED", "RUNNING"}]
    /\ cancelSeen' = [cancelSeen EXCEPT ![r] = "none"]
    /\ UNCHANGED <<envVars, target, toolName, activeExecutions, requestCount,
                   pc, it, err, validated, lastConn, ops, timerFired>>

\* The zone's owner changes the records the resolver returns
DnsChange(name) ==
    /\ name # dns
    /\ dns' = name
    /\ UNCHANGED <<approvedDomains, backendActiveExecutions, maxRequestsPerRun,
                   enqueueResult, attemptsMade, redactions, timeVars, vIn, vOut,
                   status, target, toolName,
                   activeExecutions,
                   requestCount, pc, it, err, cancelSeen, validated, lastConn,
                   ops, timerFired, cancelAccepted>>


(***************************************************************************)
(* RateLimiter (worker/src/rate-limiter.ts) and ToolExecutor               *)
(* (worker/src/tools/executor.ts)                                          *)
(***************************************************************************)
\* Fault variant of releaseExecutionSlot: the slot is kept
KeepExecutionSlot(n) ==
    n

\* releaseExecutionSlot(): the new value of activeExecutions
ReleaseExecutionSlot(n) ==
    IF n > 0 THEN n - 1 ELSE n

\* Fault variant of the limit test: > where the code has >=
RequestLimitPassed(r) ==
    requestCount[r] > maxRequestsPerRun

\* waitForRequestSlot: state.requestCount >= this.config.maxRequestsPerRun
RequestLimitReached(r) ==
    requestCount[r] >= maxRequestsPerRun

\* const isTimeout = error.message?.includes('timeout')
IsTimeout(e) ==
    Includes(MessageText(e), S_timeout)

\* the waitForRequestSlot calls a probe makes when nothing throws
SlotCalls(tool) ==
    CASE tool = "CORS_CHECK" -> 4
      [] tool = "DNS_LOOKUP" -> 6
      [] OTHER -> 1

\* the requestCount field of the result a probe returns: testOrigins.length
\* + 1, recordTypes.length, or the literal 1
ReportedRequestCount(tool) ==
    CASE tool = "CORS_CHECK" -> 3 + 1
      [] tool = "DNS_LOOKUP" -> 6
      [] OTHER -> 1

\* whether an outbound operation follows the k-th waitForRequestSlot call:
\* executeCorsCheck takes its first slot and sends nothing for it
OperationFollows(tool, k) ==
    ~(tool = "CORS_CHECK" /\ k = 1)

\* whether uploadToolOutput is called inside the probe's try block
UploadInsideTry(tool) ==
    tool \notin {"CORS_CHECK", "DNS_LOOKUP"}

\* whether the outbound operation connects to the host of the target
\* (DNS_LOOKUP asks the resolver, CERT_TRANSPARENCY asks crt.sh)
ContactsTarget(tool) ==
    tool \notin {"DNS_LOOKUP", "CERT_TRANSPARENCY"}

InProcess ==
    {r \in Runs : pc[r] \notin {"none", "queued", "done"}}

\* the jobs between waitForExecutionSlot's return and releaseExecutionSlot
HoldingSlot ==
    {r \in Runs : pc[r] \in {"markRunning", "execute", "request", "sleeping",
                             "outbound", "upload", "markCompleted", "catch",
                             "finally"}}

workerFrame ==
    <<envVars, target, toolName, cancelSeen, validated, cancelAccepted>>

\* BullMQ hands the oldest waiting job to the processor while fewer than
\* `concurrency` jobs are in process
Dequeue(concurrency, r) ==
    /\ pc[r] = "queued"
    /\ \A q \in Runs : q < r => pc[q] # "queued"
    /\ Cardinality(InProcess) < concurrency
    /\ pc' = [pc EXCEPT ![r] = "waitSlot"]
    /\ UNCHANGED <<workerFrame, status, activeExecutions, requestCount, it,
                   err, lastConn, ops, timerFired>>

\* Fault variant of waitForExecutionSlot: the loop condition is read before
\* a suspension and the slot taken after it, whatever the counter is then
WaitForExecutionSlotUnchecked(r) ==
    /\ pc[r] = "waitSlot"
    /\ activeExecutions' = activeExecutions + 1
    /\ pc' = [pc EXCEPT ![r] = "markRunning"]
    /\ UNCHANGED <<workerFrame, status, requestCount, it, err, lastConn, ops,
                   timerFired>>

\* waitForExecutionSlot(): one test of the loop condition; the job sleeps
\* (stays) while the limit is reached, else takes the slot
WaitForExecutionSlot(r) ==
    /\ pc[r] = "waitSlot"
    /\ IF activeExecutions >= maxConcurrent
       THEN UNCHANGED <<activeExecutions, pc>>
       ELSE /\ activeExecutions' = activeExecutions + 1
            /\ pc' = [pc EXCEPT ![r] = "markRunning"]
    /\ UNCHANGED <<workerFrame, status, requestCount, it, err, lastConn, ops,
                   timerFired>>

\* prisma.toolRun.update({status: RUNNING}); a throw goes to the catch block
MarkRunning(r) ==
    /\ pc[r] = "markRunning"
    /\ \E res \in {"ok"} \cup ExternalErrors :
          IF res = "ok"
          THEN /\ status' = [status EXCEPT ![r] = "RUNNING"]
               /\ pc' = [pc EXCEPT ![r] = "execute"]
               /\ err' = err
          ELSE /\ err' = [err EXCEPT ![r] = res]
               /\ pc' = [pc EXCEPT ![r] = "catch"]
               /\ status' = status
    /\ UNCHANGED <<workerFrame, activeExecutions, requestCount, it, lastConn,
                   ops, timerFired>>

\* execute(params): resetRunState(toolRunId), then the switch on toolName
Execute(r) ==
    /\ pc[r] = "execute"
    /\ requestCount' = [requestCount EXCEPT ![r] = 0]
    /\ it' = [it EXCEPT ![r] = 0]
    /\ IF toolName[r] \in ToolNames
       THEN /\ pc' = [pc EXCEPT ![r] = "request"]
            /\ err' = err
       ELSE /\ pc' = [pc EXCEPT ![r] = "catch"]
            /\ err' = [err EXCEPT ![r] = "unknown"]
    /\ UNCHANGED <<workerFrame, status, activeExecutions, lastConn, ops,
                   timerFired>>

\* The end of waitForRequestSlot: the count is incremented and returned;
\* the probe goes on to its outbound operation, which starts at once
GrantRequestSlot(r) ==
    /\ requestCount' = [requestCount EXCEPT ![r] = @ + 1]
    /\ it' = [it EXCEPT ![r] = @ + 1]
    /\ IF OperationFollows(toolName[r], it[r] + 1)
       THEN /\ pc' = [pc EXCEPT ![r] = "outbound"]
            /\ ops' = [ops EXCEPT ![r] = @ + 1]
       ELSE /\ pc' = [pc EXCEPT ![r] = "request"]
            /\ ops' = ops

\* waitForRequestSlot(runId) up to its await: the limit test throws to the
\* job processor (no probe calls it inside a try block); a delay is needed
\* only after an earlier request (lastRequestTime is 0 after the reset)
WaitForRequestSlot(r) ==
    /\ pc[r] = "request"
    /\ IF RequestLimitReached(r)
       THEN /\ err' = [err EXCEPT ![r] = "limit"]
            /\ pc' = [pc EXCEPT ![r] = "catch"]
            /\ UNCHANGED <<requestCount, it, ops>>
       ELSE /\ err' = err
            /\ \E delayNeeded \in IF requestCount[r] > 0 THEN BOOLEAN ELSE {FALSE} :
                  IF delayNeeded
                  THEN /\ pc' = [pc EXCEPT ![r] = "sleeping"]
                       /\ UNCHANGED <<requestCount, it, ops>>
                  ELSE GrantRequestSlot(r)
    /\ UNCHANGED <<workerFrame, status, activeExecutions, lastConn, timerFired>>

\* waitForRequestSlot(runId) after await this.sleep(delayNeeded)
WakeUp(r) ==
    /\ pc[r] = "sleeping"
    /\ GrantRequestSlot(r)
    /\ UNCHANGED <<workerFrame, status, activeExecutions, err, lastConn,
                   timerFired>>

\* where a probe goes after the outbound operation of its try block
AfterOperation(tool, k, outcome) ==
    IF UploadInsideTry(tool)
    THEN IF outcome = "ok" THEN "upload" ELSE "markCompleted"
    ELSE IF k < SlotCalls(tool) THEN "request" ELSE "upload"

\* withTimeout(operation) settles: the operation resolved ("ok"), rejected
\* ("error") or the timer won the race ("timer").  The operation looks the
\* host up when it runs and connects to one of the addresses the resolver
\* returns then.  Every probe catches the rejection itself.
OperationSettles(r) ==
    /\ pc[r] = "outbound"
    /\ \E outcome \in {"ok", "error", "timer"} :
          /\ pc' = [pc EXCEPT ![r] = AfterOperation(toolName[r], it[r], outcome)]
          /\ timerFired' = [timerFired EXCEPT ![r] = @ \/ outcome = "timer"]
          /\ IF ContactsTarget(toolName[r]) /\ AnswerAddresses(dns) # {}
             THEN \E a \in AnswerAddresses(dns) : lastConn' = [run |-> r, addr |-> a]
             ELSE /\ lastConn' = lastConn
                  /\ (ContactsTarget(toolName[r]) => outcome # "ok")
    /\ UNCHANGED <<workerFrame, status, activeExecutions, requestCount, it,
                   err, ops>>

\* the redactOutput calls a probe makes on its output before it hands the
\* text to storage.uploadToolOutput
RedactionCalls(tool) ==
    IF tool \in {"TLS_CHECK", "HEADER_CHECK"} THEN 1 ELSE 0

\* storage.uploadToolOutput(...) is handed the probe's text; a throw is
\* caught by the probe when the call is inside its try block, else it
\* reaches the job processor
Upload(r) ==
    /\ pc[r] = "upload"
    /\ redactions' = [redactions EXCEPT ![r] = RedactionCalls(toolName[r])]
    /\ \E res \in {"ok"} \cup ExternalErrors :
          IF res = "ok" \/ UploadInsideTry(toolName[r])
          THEN /\ pc' = [pc EXCEPT ![r] = "markCompleted"]
               /\ err' = err
          ELSE /\ pc' = [pc EXCEPT ![r] = "catch"]
               /\ err' = [err EXCEPT ![r] = res]
    /\ UNCHANGED <<approvedDomains, dns, backendActiveExecutions,
                   maxRequestsPerRun, timeVars, vIn, vOut, target, toolName,
                   cancelSeen, validated, cancelAccepted, status,
                   activeExecutions, requestCount, it, lastConn, ops,
                   timerFired, attemptsMade, enqueueResult>>

(***************************************************************************)
(* The job processor (worker/src/index.ts)                                 *)
(***************************************************************************)
\* execute returned: prisma.toolRun.update({status: COMPLETED, ...})
MarkCompleted(r) ==
    /\ pc[r] = "markCompleted"
    /\ \E res \in {"ok"} \cup ExternalErrors :
          IF res = "ok"
          THEN /\ status' = [status EXCEPT ![r] = "COMPLETED"]
               /\ pc' = [pc EXCEPT ![r] = "finally"]
               /\ err' = err
          ELSE /\ err' = [err EXCEPT ![r] = res]
               /\ pc' = [pc EXCEPT ![r] = "catch"]
               /\ status' = status
    /\ UNCHANGED <<workerFrame, activeExecutions, requestCount, it, lastConn,
                   ops, timerFired>>

\* the status the catch block stores for error e
CatchStatus(e) ==
    IF IsTimeout(e) THEN "TIMEOUT" ELSE "FAILED"

\* catch (error): prisma.toolRun.update({status: TIMEOUT or FAILED, ...}),
\* then throw error; when the update throws, its error is the one thrown
MarkFailed(r) ==
    /\ pc[r] = "catch"
    /\ \E res \in {"ok"} \cup ExternalErrors :
          IF res = "ok"
          THEN /\ status' = [status EXCEPT ![r] = CatchStatus(err[r])]
               /\ err' = err
          ELSE /\ status' = status
               /\ err' = [err EXCEPT ![r] = res]
    /\ pc' = [pc EXCEPT ![r] = "finally"]
    /\ UNCHANGED <<workerFrame, activeExecutions, requestCount, it, lastConn,
                   ops, timerFired>>

\* Fault variant of the job options: attempts: 2
JobAfterSecondFailure(made) ==
    IF made < attempts + 1 THEN "queued" ELSE "done"

\* What the queue does with a job whose processor threw, after `made`
\* failed attempts: back to waiting while attempts are left, else failed
JobAfterFailure(made) ==
    IF made < attempts THEN "queued" ELSE "done"

\* finally: rateLimiter.releaseExecutionSlot(); then the processor's promise
\* settles: resolved, the job is completed; rejected (the catch block
\* rethrows), the queue counts a failed attempt
Finally(r) ==
    /\ pc[r] = "finally"
    /\ activeExecutions' = ReleaseExecutionSlot(activeExecutions)
    /\ IF err[r] = "none"
       THEN /\ pc' = [pc EXCEPT ![r] = "done"]
            /\ attemptsMade' = attemptsMade
       ELSE /\ pc' = [pc EXCEPT ![r] = JobAfterFailure(attemptsMade[r] + 1)]
            /\ attemptsMade' = [attemptsMade EXCEPT ![r] = @ + 1]
    /\ UNCHANGED <<approvedDomains, dns, backendActiveExecutions,
                   maxRequestsPerRun, redactions, timeVars, vIn, vOut, target,
                   toolName, cancelSeen, validated, cancelAccepted, status,
                   requestCount, it, err, lastConn, ops, timerFired,
                   enqueueResult>>

Worker(concurrency, r) ==
    \/ Dequeue(concurrency, r)
    \/ WaitForExecutionSlot(r)
    \/ MarkRunning(r)
    \/ Execute(r)
    \/ WaitForRequestSlot(r)
    \/ WakeUp(r)
    \/ OperationSettles(r)
    \/ Upload(r)
    \/ MarkCompleted(r)
    \/ MarkFailed(r)
    \/ Finally(r)

(***************************************************************************)
(* Spec: one assessment, the API and the zone's owner beside the worker    *)
(***************************************************************************)
Next ==
    \/ \E tgt \in {T_SUB, T_EVIL, T_IP}, tool \in RequestedTools,
          dryRun \in BOOLEAN, assessmentExists \in BOOLEAN :
          Enqueue(PipelineRuns, tgt, tool, dryRun, assessmentExists)
    \/ \E r \in Runs : CancelFind(r)
    \/ \E r \in Runs : CancelUpdate(r)
    \/ \E name \in PipelineDnsNames : DnsChange(name)
    \/ \E r \in Runs : Worker(WorkerConcurrency, r)

Spec ==
    Init /\ [][Next]_vars


(***************************************************************************)
(* SpecN: MaxRuns jobs handed to the processor together, more than the     *)
(* rate limiter's maxConcurrent, interleaved at their await points         *)
(***************************************************************************)
QueuedTools ==
    {"HEADER_CHECK", "CORS_CHECK"}

\* The state after MaxRuns accepted enqueue calls for sub.approved.com,
\* before the worker takes the first job
InitN ==
    /\ status = [r \in Runs |-> "QUEUED"]
    /\ target = [r \in Runs |-> T_SUB]
    /\ toolName \in [Runs -> QueuedTools]
    /\ pc = [r \in Runs |-> "queued"]
    /\ validated = [r \in Runs |-> "public"]
    /\ backendActiveExecutions = 0
    /\ activeExecutions = 0
    /\ requestCount = [r \in Runs |-> 0]
    /\ it = [r \in Runs |-> 0]
    /\ err = [r \in Runs |-> "none"]
    /\ cancelSeen = [r \in Runs |-> "none"]
    /\ lastConn = NoConn
    /\ ops = [r \in Runs |-> 0]
    /\ timerFired = [r \in Runs |-> FALSE]
    /\ cancelAccepted = [r \in Runs |-> FALSE]
    /\ InitTime
    /\ redactions = [r \in Runs |-> NotUploaded]
    /\ attemptsMade = [r \in Runs |-> 0]
    /\ enqueueResult = "none"
    /\ approvedDomains = <<D_APPROVED>>
    /\ dns = "public"
    /\ maxRequestsPerRun = SmallBudget
    /\ vIn = NoInput
    /\ vOut = NoResult

NextN ==
    \E r \in Runs : Worker(MaxRuns, r)

SpecN ==
    InitN /\ [][NextN]_vars

(***************************************************************************)
(* SpecV: validateToolTarget as a function of the target, the approved     *)
(* domains and the resolver's answer                                       *)
(***************************************************************************)
InitV ==
    /\ InitPipeline
    /\ approvedDomains = <<D_APPROVED>>
    /\ dns = "public"
    /\ maxRequestsPerRun = DefaultMaxRequests
    /\ vIn \in [target : Targets, approved : ApprovedLists, answer : DnsNames]
    /\ vOut = NoResult

\* validateToolTarget(target, assessmentDomains) where the resolver gives
\* the answer of the input
Validate ==
    /\ vOut = NoResult
    /\ vOut' = ValidateToolTarget(vIn.target, vIn.approved, DnsAnswer(vIn.answer))
    /\ UNCHANGED <<approvedDomains, dns, status, target, toolName,
                   backendActiveExecutions, maxRequestsPerRun, activeExecutions,
                   requestCount, pc, it, err, cancelSeen, validated, lastConn,
                   ops, timerFired, cancelAccepted, redactions, timeVars, vIn,
                   attemptsMade, enqueueResult>>

NextV ==
    Validate

SpecV ==
    InitV /\ [][NextV]_vars


(***************************************************************************)
(* SpecT, SpecC: waitForRequestSlot against the clock.  SpecT makes the    *)
(* calls for one run id one after the other, as a probe does; SpecC lets   *)
(* MaxCallers calls for the same run id overlap at the sleep.              *)
(***************************************************************************)
\* the run id the calls are made for
TimedRun ==
    1

\* Fault variant of the delay computation: one tick short
DelayNeededShort(now, last) ==
    IF minDelayMs - 1 - (now - last) > 0 THEN minDelayMs - 1 - (now - last) ELSE 0

\* Math.max(0, this.config.minDelayMs - (now - state.lastRequestTime))
DelayNeeded(now, last) ==
    IF minDelayMs - (now - last) > 0 THEN minDelayMs - (now - last) ELSE 0

timeFrame ==
    <<approvedDomains, dns, backendActiveExecutions, maxRequestsPerRun, vIn,
      vOut, redactions, attemptsMade, enqueueResult, status, target, toolName, activeExecutions, pc, it, err,
      cancelSeen, validated, lastConn, ops, timerFired, cancelAccepted>>

\* Time passes
Tick ==
    /\ clock < StartClock + MaxTicks
    /\ clock' = clock + 1
    /\ UNCHANGED <<timeFrame, requestCount, lastRequestTime, callPc, wakeAt>>

\* state.requestCount++; state.lastRequestTime = Date.now(); return
UpdateState(c, r) ==
    /\ requestCount' = [requestCount EXCEPT ![r] = @ + 1]
    /\ lastRequestTime' = [lastRequestTime EXCEPT ![r] = clock]
    /\ callPc' = [callPc EXCEPT ![c] = "granted"]

\* waitForRequestSlot(runId) up to its await, as call c for run r: the
\* limit test, the delay computation, and the update when no delay is needed
CallRequestSlot(limit, c, r) ==
    /\ c <= limit
    /\ callPc[c] = "idle"
    /\ IF RequestLimitReached(r)
       THEN /\ callPc' = [callPc EXCEPT ![c] = "thrown"]
            /\ UNCHANGED <<requestCount, lastRequestTime, wakeAt>>
       ELSE IF DelayNeeded(clock, lastRequestTime[r]) > 0
       THEN /\ callPc' = [callPc EXCEPT ![c] = "sleeping"]
            /\ wakeAt' = [wakeAt EXCEPT ![c] = clock + DelayNeeded(clock, lastRequestTime[r])]
            /\ UNCHANGED <<requestCount, lastRequestTime>>
       ELSE /\ UpdateState(c, r)
            /\ wakeAt' = wakeAt
    /\ UNCHANGED <<timeFrame, clock>>

\* the sleep timer of call c for run r fires, not before it is due, and
\* the call goes on
SleepReturns(c, r) ==
    /\ callPc[c] = "sleeping"
    /\ clock >= wakeAt[c]
    /\ UpdateState(c, r)
    /\ UNCHANGED <<timeFrame, clock, wakeAt>>

\* the caller has the call's result (the count or the error)
CallReturns(c) ==
    /\ callPc[c] \in {"granted", "thrown"}
    /\ callPc' = [callPc EXCEPT ![c] = "idle"]
    /\ UNCHANGED <<timeFrame, clock, requestCount, lastRequestTime, wakeAt>>

InitT ==
    /\ InitPipeline
    /\ approvedDomains = <<D_APPROVED>>
    /\ dns = "public"
    /\ maxRequestsPerRun = SmallBudget
    /\ vIn = NoInput
    /\ vOut = NoResult

NextT ==
    \/ Tick
    \/ CallRequestSlot(1, 1, TimedRun)
    \/ SleepReturns(1, TimedRun)
    \/ CallReturns(1)

SpecT ==
    InitT /\ [][NextT]_vars

NextC ==
    \/ Tick
    \/ \E c \in Callers : CallRequestSlot(MaxCallers, c, TimedRun)
    \/ \E c \in Callers : SleepReturns(c, TimedRun)
    \/ \E c \in Callers : CallReturns(c)

SpecC ==
    InitT /\ [][NextC]_vars

(***************************************************************************)
(* SpecR: the executor's use of the rate limiter for several runs at once: *)
(* call c is made for run c, interleaved with the calls for the other runs *)
(***************************************************************************)
\* fault variant of ResetState: the whole map is cleared
ResetAllStates(states, r) ==
    [q \in Runs |-> 0]

\* this.runStates.set(runId, { lastRequestTime: 0, requestCount: 0 }):
\* the new value of one field of the map
ResetState(states, r) ==
    [states EXCEPT ![r] = 0]

\* resetRunState(runId), called by execute before the probe's first call
ResetRunState(c, r) ==
    /\ callPc[c] = "idle"
    /\ requestCount' = ResetState(requestCount, r)
    /\ lastRequestTime' = ResetState(lastRequestTime, r)
    /\ UNCHANGED <<timeFrame, clock, callPc, wakeAt>>

NextR ==
    \/ Tick
    \/ \E c \in Callers : ResetRunState(c, c)
    \/ \E c \in Callers : CallRequestSlot(MaxCallers, c, c)
    \/ \E c \in Callers : SleepReturns(c, c)
    \/ \E c \in Callers : CallReturns(c)

SpecR ==
    InitT /\ [][NextR]_vars

(***************************************************************************)
(* SpecE: enqueue requests against every approved-domain table and every   *)
(* answer of the resolver, without the worker                              *)
(***************************************************************************)
\* the runs the API creates in SpecE
EnqueueRuns == 2

EnqueuedTools ==
    {"HEADER_CHECK", "DNS_LOOKUP", "PORT_SCAN"}

EnqueuedTargets ==
    {T_SUB, T_EVIL, T_IP}

EnqueueDnsNames ==
    {"public", "private", "nxdomain"}

enqueueVars ==
    <<approvedDomains, dns, maxRequestsPerRun, enqueueResult, attemptsMade,
      redactions, timeVars, vIn, vOut, status, target, toolName,
      activeExecutions, requestCount, pc, it, err, cancelSeen, validated,
      lastConn, ops, timerFired, cancelAccepted>>

\* waitForExecutionSlot() of the backend's RateLimiterService when a slot
\* is free (no caller of it is in the repository; the service exports it)
BackendWaitForExecutionSlot ==
    /\ CanStartExecution
    /\ backendActiveExecutions' = backendActiveExecutions + 1
    /\ UNCHANGED enqueueVars

\* releaseExecutionSlot() of the backend's RateLimiterService
BackendReleaseExecutionSlot ==
    /\ backendActiveExecutions' =
          IF backendActiveExecutions > 0 THEN backendActiveExecutions - 1
          ELSE backendActiveExecutions
    /\ UNCHANGED enqueueVars

InitE ==
    /\ InitPipeline
    /\ approvedDomains \in ApprovedLists
    /\ dns \in EnqueueDnsNames
    /\ maxRequestsPerRun = DefaultMaxRequests
    /\ vIn = NoInput
    /\ vOut = NoResult

NextE ==
    \/ \E tgt \in EnqueuedTargets, tool \in EnqueuedTools, dryRun \in BOOLEAN,
          assessmentExists \in BOOLEAN :
          Enqueue(EnqueueRuns, tgt, tool, dryRun, assessmentExists)
    \/ BackendWaitForExecutionSlot
    \/ BackendReleaseExecutionSlot

SpecE ==
    InitE /\ [][NextE]_vars

(***************************************************************************)
(* SpecB: the API accepting a further run while the worker is busy, and    *)
(* SpecL: the worker alone, its steps taken fairly                         *)
(***************************************************************************)
\* The state after maxConcurrent accepted enqueue calls (a CORS_CHECK, then
\* HEADER_CHECKs), before the worker takes the first job; the other runs
\* do not exist yet
InitB ==
    /\ status = [r \in Runs |-> IF r <= maxConcurrent THEN "QUEUED" ELSE "none"]
    /\ target = [r \in Runs |-> IF r <= maxConcurrent THEN T_SUB ELSE <<>>]
    /\ toolName = [r \in Runs |-> IF r > maxConcurrent THEN "none"
                                  ELSE IF r = 1 THEN "CORS_CHECK" ELSE "HEADER_CHECK"]
    /\ pc = [r \in Runs |-> IF r <= maxConcurrent THEN "queued" ELSE "none"]
    /\ validated = [r \in Runs |-> IF r <= maxConcurrent THEN "public" ELSE "none"]
    /\ backendActiveExecutions = 0
    /\ activeExecutions = 0
    /\ requestCount = [r \in Runs |-> 0]
    /\ it = [r \in Runs |-> 0]
    /\ err = [r \in Runs |-> "none"]
    /\ cancelSeen = [r \in Runs |-> "none"]
    /\ lastConn = NoConn
    /\ ops = [r \in Runs |-> 0]
    /\ timerFired = [r \in Runs |-> FALSE]
    /\ cancelAccepted = [r \in Runs |-> FALSE]
    /\ InitTime
    /\ redactions = [r \in Runs |-> NotUploaded]
    /\ attemptsMade = [r \in Runs |-> 0]
    /\ enqueueResult = "none"
    /\ approvedDomains = <<D_APPROVED>>
    /\ dns = "public"
    /\ maxRequestsPerRun = DefaultMaxRequests
    /\ vIn = NoInput
    /\ vOut = NoResult

\* the API process and the worker process side by side; nothing in the
\* repository calls the backend's waitForExecutionSlot, so the backend's
\* counter has no step here
NextB ==
    \/ Enqueue(MaxRuns, T_SUB, "HEADER_CHECK", FALSE, TRUE)
    \/ \E r \in Runs : Worker(WorkerConcurrency, r)

SpecB ==
    InitB /\ [][NextB]_vars

\* every prisma.toolRun.update the processor awaits in this step returns:
\* the status it writes is stored
PersistenceReturns(r) ==
    status'[r] = CASE pc[r] = "markRunning" -> "RUNNING"
                   [] pc[r] = "markCompleted" -> "COMPLETED"
                   [] pc[r] = "catch" -> CatchStatus(err[r])
                   [] OTHER -> status[r]

\* MaxRuns jobs in process together, so that a job can find every slot taken
NextL ==
    \E r \in Runs : Worker(MaxRuns, r) /\ PersistenceReturns(r)

\* the event loop runs every continuation that is ready: a sleep ends, an
\* operation or its timer settles, an awaited call returns
SpecL ==
    /\ InitN
    /\ [][NextL]_vars
    /\ \A r \in Runs : WF_vars(Worker(MaxRuns, r) /\ PersistenceReturns(r))

(***************************************************************************)
(* SpecI: the address tests validateDnsResolution applies to each record   *)
(* the resolver returns, as functions of the address                       *)
(***************************************************************************)
\* the dotted decimal text of the IPv4 address with the octets o
DottedText(o) ==
    LET OctetText(n) ==
            IF n < 10 THEN <<Digits[n + 1]>>
            ELSE IF n < 100 THEN <<Digits[(n \div 10) + 1], Digits[(n % 10) + 1]>>
            ELSE <<Digits[(n \div 100) + 1], Digits[((n \div 10) % 10) + 1],
                   Digits[(n % 10) + 1]>>
    IN  OctetText(o[1]) \o <<".">> \o OctetText(o[2]) \o <<".">> \o
        OctetText(o[3]) \o <<".">> \o OctetText(o[4])

\* the octets of the A records: every first octet, and the second, third
\* and fourth octets at and next to the ends of each blocked range
V4Octets ==
    (0..255)
    \X {0, 1, 15, 16, 17, 18, 19, 20, 31, 32, 50, 51, 52, 63, 64, 65, 127,
        128, 167, 168, 169, 253, 254, 255}
    \X {0, 1, 2, 3, 99, 100, 101, 112, 113, 114, 255}
    \X {0, 255}

\* the IPv4 addresses embedded in the IPv4-mapped AAAA records
EmbeddedOctets ==
    {<<127, 0, 0, 1>>, <<10, 0, 0, 5>>, <<172, 16, 0, 1>>, <<172, 32, 0, 1>>,
     <<192, 168, 1, 10>>, <<169, 254, 169, 254>>, <<100, 64, 0, 1>>,
     <<0, 0, 0, 0>>, <<224, 0, 0, 1>>, <<93, 184, 216, 34>>, <<8, 8, 8, 8>>}

\* the AAAA records: the first group, and whether the record is
\* IPv4-mapped (then with the embedded octets)
V6Groups ==
    {<<"f","e","8","0">>, <<"f","e","9","0">>, <<"f","e","a","0">>,
     <<"f","e","b","f">>, <<"f","e","c","0">>, <<"f","e","7","f">>,
     <<"f","c","0","0">>, <<"f","d","1","2">>, <<"f","b","f","f">>,
     <<"f","e","0","0">>, <<"2","6","0","6">>, <<"F","E","8","0">>}

ResolvedRecords ==
    [family : {4}, octets : V4Octets, group : {<<>>}]
    \cup [family : {6}, octets : {<<>>}, group : V6Groups \cup {<<>>}]
    \cup [family : {6}, octets : EmbeddedOctets, group : {<<>>}]

\* the text the resolver returns for the record
RecordText(rec) ==
    IF rec.family = 4 THEN DottedText(rec.octets)
    ELSE IF rec.octets # <<>> THEN <<":",":","f","f","f","f",":">> \o DottedText(rec.octets)
    ELSE IF rec.group = <<>> THEN <<":",":","1">>
    ELSE rec.group \o <<":",":","1">>

NoAddressResult ==
    [private |-> FALSE, num |-> <<0 - 1, 0 - 1>>]

InitI ==
    /\ InitPipeline
    /\ approvedDomains = <<D_APPROVED>>
    /\ dns = "public"
    /\ maxRequestsPerRun = DefaultMaxRequests
    /\ vIn \in ResolvedRecords
    /\ vOut = NoAddressResult

\* the body of the loops over v4Addresses and v6Addresses
CheckResolvedAddress ==
    /\ vOut = NoAddressResult
    /\ vOut' = IF vIn.family = 4
               THEN [private |-> IsPrivateIPv4(RecordText(vIn)),
                     num |-> IpToNumber(RecordText(vIn))]
               ELSE [private |-> IsPrivateIPv6(RecordText(vIn)), num |-> <<0, 0>>]
    /\ UNCHANGED <<approvedDomains, dns, status, target, toolName,
                   backendActiveExecutions, maxRequestsPerRun, activeExecutions,
                   requestCount, pc, it, err, cancelSeen, validated, lastConn,
                   ops, timerFired, cancelAccepted, redactions, timeVars, vIn,
                   attemptsMade, enqueueResult>>

NextI ==
    CheckResolvedAddress

SpecI ==
    InitI /\ [][NextI]_vars

(***************************************************************************)
(* RedactionService (backend/src/security/security.module.ts) and SpecD:   *)
(* redactText and redactJson as functions of their input.  The patterns    *)
(* modelled are the four that can match a text made of TextFragments; each *)
(* of the other fifteen needs a literal prefix (eyJ, Bearer, Cookie:,      *)
(* AKIA, ...) or a run of 16 or more characters that no such text holds.   *)
(***************************************************************************)
\* the end of the longest run of characters of `class` that starts at i
\* (i - 1 when s[i] is not in the class)
RunEnd(s, i, class) ==
    CHOOSE e \in (i - 1)..Len(s) :
        /\ \A k \in i..e : s[k] \in class
        /\ (e < Len(s) => s[e + 1] \notin class)

\* the first position from i on that holds the character c, 0 when none
FirstAt(s, i, c) ==
    IF \E p \in i..Len(s) : s[p] = c
    THEN CHOOSE p \in i..Len(s) : s[p] = c /\ \A k \in i..(p - 1) : s[k] # c
    ELSE 0

Letters ==
    Range(LowerCase) \cup Range(UpperCase)

NoMatch ==
    [end |-> 0, out |-> <<>>]

\* /[a-zA-Z0-9._%+-]+@[a-zA-Z0-9.-]+\.[a-zA-Z]{2,}/g at position i
MatchEmail(s, i) ==
    LET localEnd == RunEnd(s, i, Letters \cup Range(Digits) \cup {".", "_", "%", "+", "-"})
        j == localEnd + 2
        domainEnd == RunEnd(s, j, Letters \cup Range(Digits) \cup {".", "-"})
        dots == {p \in (j + 1)..domainEnd :
                    s[p] = "." /\ RunEnd(s, p + 1, Letters) >= p + 2}
        lastDot == CHOOSE p \in dots : \A q \in dots : q <= p
    IN  IF localEnd >= i /\ localEnd < Len(s) /\ s[localEnd + 1] = "@" /\ dots # {}
        THEN [end |-> RunEnd(s, lastDot + 1, Letters),
              out |-> <<"[","R","E","D","A","C","T","E","D","_","E","M","A","I","L","]">>]
        ELSE NoMatch

S_passwordKey ==
    <<"\"","p","a","s","s","w","o","r","d","\"">>

\* /("password"\s*:\s*")[^"]+(")/gi at position i
MatchPasswordJson(s, i) ==
    LET keyEnd == i + Len(S_passwordKey) - 1
        colon == RunEnd(s, keyEnd + 1, {" "}) + 1
        open == RunEnd(s, colon + 1, {" "}) + 1
        close == FirstAt(s, open + 1, "\"")
    IN  IF /\ keyEnd < Len(s)
           /\ ToLowerCase(SubSeq(s, i, keyEnd)) = S_passwordKey
           /\ colon < Len(s)
           /\ s[colon] = ":"
           /\ open <= Len(s)
           /\ s[open] = "\""
           /\ close > open + 1
        THEN [end |-> close,
              out |-> SubSeq(s, i, open)
                      \o <<"[","R","E","D","A","C","T","E","D","_","P","A","S","S","W","O","R","D","]">>
                      \o <<"\"">>]
        ELSE NoMatch

\* /(:\/\/[^:]+:)[^@]+(@)/g at position i
MatchPasswordUrl(s, i) ==
    LET colon == FirstAt(s, i + 3, ":")
        at == FirstAt(s, colon + 1, "@")
    IN  IF /\ i + 2 <= Len(s)
           /\ SubSeq(s, i, i + 2) = <<":","/","/">>
           /\ colon > i + 3
           /\ at > colon + 1
        THEN [end |-> at,
              out |-> SubSeq(s, i, colon)
                      \o <<"[","R","E","D","A","C","T","E","D","]">> \o <<"@">>]
        ELSE NoMatch

\* /\+?[1-9]\d{1,14}(?=\s|$|[^\d])/g at position i
MatchPhone(s, i) ==
    LET d == IF s[i] = "+" THEN i + 1 ELSE i
        last == RunEnd(s, d, Range(Digits))
    IN  IF d <= Len(s) /\ s[d] \in Range(Digits) \ {"0"} /\ last - d \in 1..14
        THEN [end |-> last,
              out |-> <<"[","R","E","D","A","C","T","E","D","_","P","H","O","N","E","]">>]
        ELSE NoMatch

\* the patterns, in the order of the list
REDACTION_PATTERNS ==
    <<"email", "password_json", "password_url", "phone">>

MatchAt(name, s, i) ==
    CASE name = "email"         -> MatchEmail(s, i)
      [] name = "password_json" -> MatchPasswordJson(s, i)
      [] name = "password_url"  -> MatchPasswordUrl(s, i)
      [] name = "phone"         -> MatchPhone(s, i)

\* redacted.match(pattern) and redacted.replace(pattern, replacement) of a
\* global pattern, from position i on: the matches are taken left to right
RECURSIVE ReplaceAll(_, _, _)
ReplaceAll(name, s, i) ==
    LET starts == {p \in i..Len(s) : MatchAt(name, s, p).end > 0}
        first == CHOOSE p \in starts : \A q \in starts : p <= q
        m == MatchAt(name, s, first)
        rest == ReplaceAll(name, s, m.end + 1)
    IN  IF starts = {} THEN [text |-> SubSeq(s, i, Len(s)), count |-> 0]
        ELSE [text |-> SubSeq(s, i, first - 1) \o m.out \o rest.text,
              count |-> rest.count + 1]

\* the loop of redactText from the k-th pattern on
RECURSIVE RedactFrom(_, _, _)
RedactFrom(k, redacted, totalCount) ==
    IF k > Len(REDACTION_PATTERNS)
    THEN [redacted |-> redacted, redactionCount |-> totalCount]
    ELSE LET r == ReplaceAll(REDACTION_PATTERNS[k], redacted, 1)
         IN  RedactFrom(k + 1, r.text, totalCount + r.count)

\* redactText(content)
RedactText(content) ==
    RedactFrom(1, content, 0)

\* const sensitiveFields = new Set([...])
sensitiveFields ==
    {<<"p","a","s","s","w","o","r","d">>, <<"s","e","c","r","e","t">>,
     <<"t","o","k","e","n">>, <<"a","p","i","K","e","y">>,
     <<"a","p","i","_","k","e","y">>,
     <<"a","c","c","e","s","s","T","o","k","e","n">>,
     <<"a","c","c","e","s","s","_","t","o","k","e","n">>,
     <<"r","e","f","r","e","s","h","T","o","k","e","n">>,
     <<"r","e","f","r","e","s","h","_","t","o","k","e","n">>,
     <<"a","u","t","h","o","r","i","z","a","t","i","o","n">>,
     <<"c","o","o","k","i","e">>, <<"s","e","s","s","i","o","n","I","d">>,
     <<"s","e","s","s","i","o","n","_","i","d">>,
     <<"p","r","i","v","a","t","e","K","e","y">>,
     <<"p","r","i","v","a","t","e","_","k","e","y">>,
     <<"c","r","e","d","e","n","t","i","a","l">>}

S_REDACTED ==
    <<"[","R","E","D","A","C","T","E","D","]">>

\* redactValue(value, key) of redactJson; a JSON value is a record with
\* its kind ("null", "number", "string", "array", "object"); an object
\* holds its entries [k, v] in order; key <<>> is the absent key
RECURSIVE RedactValue(_, _)
RedactValue(value, key) ==
    IF value.kind = "null" THEN value
    ELSE IF key # <<>> /\ ToLowerCase(key) \in sensitiveFields
         THEN [kind |-> "string", text |-> S_REDACTED]
    ELSE IF value.kind = "string"
         THEN [kind |-> "string", text |-> RedactText(value.text).redacted]
    ELSE IF value.kind = "array"
         THEN [kind |-> "array",
               items |-> [n \in 1..Len(value.items) |-> RedactValue(value.items[n], <<>>)]]
    ELSE IF value.kind = "object"
         THEN [kind |-> "object",
               entries |-> [n \in 1..Len(value.entries) |->
                               [k |-> value.entries[n].k,
                                v |-> RedactValue(value.entries[n].v, value.entries[n].k)]]]
    ELSE value

\* redactJson(data)
RedactJson(data) ==
    RedactValue(data, <<>>)

\* the pieces the texts handed to redactText are made of
TextFragments ==
    {S_passwordKey \o <<":","\"">>, <<"h","u","n","t","e","r","2">>, <<"\"">>,
     <<"a","d","m","i","n","@","b",".","c","o">>, <<"4","1","5","5","5">>,
     <<" ">>, <<":","/","/","u",":">>, <<"p","w","@","h",".","i","o">>, <<"0","7">>}

\* the texts: up to MaxFragments fragments in a row
MaxFragments == 3

RECURSIVE FragmentTexts(_)
FragmentTexts(n) ==
    IF n = 0 THEN {<<>>}
    ELSE FragmentTexts(n - 1)
         \cup {t \o f : t \in FragmentTexts(n - 1), f \in TextFragments}

\* the keys of the objects handed to redactJson: the names of the set as
\* they are written, one in upper case, and two that are not in the set
JsonKeys ==
    sensitiveFields \cup {<<"P","A","S","S","W","O","R","D">>, <<"n","a","m","e">>, <<"p","o","r","t">>}

\* the values under those keys
JsonLeaves ==
    {[kind |-> "string", text |-> <<"h","u","n","t","e","r","2">>],
     [kind |-> "string", text |-> <<"a","d","m","i","n","@","b",".","c","o">>],
     [kind |-> "number", n |-> 7],
     [kind |-> "null"],
     [kind |-> "array", items |-> <<[kind |-> "string", text |-> <<"x">>]>>],
     [kind |-> "object", entries |-> <<[k |-> <<"n","a","m","e">>,
                                        v |-> [kind |-> "string", text |-> <<"x">>]]>>]}

\* the object {key: leaf} at nesting depth 0, 1 (under "host", or in an
\* array) and 2
JsonInputs ==
    LET flat == {[kind |-> "object", entries |-> <<[k |-> key, v |-> leaf]>>] :
                    key \in JsonKeys, leaf \in JsonLeaves}
        under(o) == [kind |-> "object", entries |-> <<[k |-> <<"h","o","s","t">>, v |-> o]>>]
        inArray(o) == [kind |-> "array", items |-> <<o>>]
    IN  flat \cup {under(o) : o \in flat} \cup {under(inArray(o)) : o \in flat}

NoRedaction ==
    [kind |-> "pending"]

InitD ==
    /\ InitPipeline
    /\ approvedDomains = <<D_APPROVED>>
    /\ dns = "public"
    /\ maxRequestsPerRun = DefaultMaxRequests
    /\ vIn \in [kind : {"text"}, text : FragmentTexts(MaxFragments)]
               \cup [kind : {"json"}, data : JsonInputs]
    /\ vOut = NoRedaction

\* redactText(content) and redactText of its result, or redactJson(data)
Redact ==
    /\ vOut = NoRedaction
    /\ vOut' = IF vIn.kind = "text"
               THEN [kind |-> "text",
                     first |-> RedactText(vIn.text),
                     second |-> RedactText(RedactText(vIn.text).redacted)]
               ELSE [kind |-> "json", data |-> RedactJson(vIn.data)]
    /\ UNCHANGED <<approvedDomains, dns, status, target, toolName,
                   backendActiveExecutions, maxRequestsPerRun, activeExecutions,
                   requestCount, pc, it, err, cancelSeen, validated, lastConn,
                   ops, timerFired, cancelAccepted, redactions, timeVars, vIn,
                   attemptsMade, enqueueResult>>

NextD ==
    Redact

SpecD ==
    InitD /\ [][NextD]_vars

(***************************************************************************)
(* ToolExecutor: what a finished probe reports (SpecX)                     *)
(*                                                                         *)
(* executeCorsCheck grades the three responses it collected, and           *)
(* executeTlsCheck stores the redacted output and a summary line.  Both    *)
(* are computed from the probe's raw results alone, so they are checked as *)
(* functions of those results.                                             *)
(***************************************************************************)
testOrigins ==
    <<"https://evil.com", "null", "https://example.com">>

\* results.some(r => r.allowOrigin === '*')
HasWildcard(results) ==
    \E i \in 1..Len(results) : results[i].allowOrigin = "*"

\* results.some(r => r.allowOrigin === r.origin && r.origin !== 'null')
ReflectsOrigin(results) ==
    \E i \in 1..Len(results) :
        results[i].allowOrigin = results[i].origin /\ results[i].origin # "null"

\* the severity executeCorsCheck reports
CorsSeverity(results) ==
    IF ReflectsOrigin(results)
       /\ \E i \in 1..Len(results) : results[i].allowCredentials = "true"
    THEN "high"
    ELSE IF HasWildcard(results) THEN "medium"
    ELSE "info"

\* lines.find(l => l.includes(p))?.trim() || fallback
FindLine(lines, p, fallback) ==
    LET found == {i \in 1..Len(lines) : Includes(lines[i], p)}
        first == CHOOSE i \in found : \A j \in found : i <= j
    IN  IF found = {} \/ Trim(lines[first]) = <<>> THEN fallback
        ELSE Trim(lines[first])

parseTlsSummary(output) ==
    LET lines == Split(output, "\n")
        issuer == FindLine(lines, <<"I","s","s","u","e","r",":">>,
                           <<"U","n","k","n","o","w","n"," ","i","s","s","u","e","r">>)
        subject == FindLine(lines, <<"S","u","b","j","e","c","t",":">>,
                            <<"U","n","k","n","o","w","n"," ","s","u","b","j","e","c","t">>)
        notAfter == FindLine(lines, <<"N","o","t"," ","A","f","t","e","r">>, <<>>)
        summary == subject \o <<".", " ">> \o issuer \o <<".", " ">> \o notAfter
    IN  SubSeq(summary, 1, IF Len(summary) < 500 THEN Len(summary) ELSE 500)

\* redactOutput(output): its e-mail pattern is the e-mail pattern of
\* REDACTION_PATTERNS; its other three patterns (JWT, AWS key, private key)
\* match no text built from CertificateLines
redactOutput(output) ==
    ReplaceAll("email", output, 1).text

\* a text holds an e-mail address where the e-mail pattern matches
ContainsEmail(text) ==
    \E i \in 1..Len(text) : MatchEmail(text, i) # NoMatch

\* the headers one response can carry: Access-Control-Allow-Origin absent,
\* '*', one of the tested origins, or another origin
AllowOriginValues ==
    {"undefined", "*", "https://approved.com"} \cup Range(testOrigins)

AllowCredentialsValues ==
    {"undefined", "true", "false"}

\* the results array after the loop: one entry per tested origin, in order
\* (a failed request leaves both header fields undefined)
CorsResults ==
    {[i \in 1..Len(testOrigins) |->
         [origin |-> testOrigins[i], allowOrigin |-> ao[i], allowCredentials |-> ac[i]]] :
       ao \in [1..Len(testOrigins) -> AllowOriginValues],
       ac \in [1..Len(testOrigins) -> AllowCredentialsValues]}

\* lines of `openssl x509 -noout -text`
CertificateLines ==
    {<<"C","e","r","t",":">>,
     <<" ","I","s","s","u","e","r",":"," ","O","=","c","a">>,
     <<" ","S","u","b","j","e","c","t",":"," ","C","N","=","h">>,
     <<" ","S","u","b","j","e","c","t",":"," ","a","@","b",".","c","o">>,
     <<" ","N","o","t"," ","A","f","t","e","r",":"," ","3","0">>}

\* the outputs: up to MaxLines lines
MaxLines == 3

TlsOutputs ==
    {Join(ls, "\n") : ls \in UNION {[1..n -> CertificateLines] : n \in 0..MaxLines}}

NoReport ==
    [kind |-> "pending"]

InitX ==
    /\ InitPipeline
    /\ approvedDomains = <<D_APPROVED>>
    /\ dns = "public"
    /\ maxRequestsPerRun = DefaultMaxRequests
    /\ vIn \in [kind : {"cors"}, results : CorsResults]
               \cup [kind : {"tls"}, output : TlsOutputs]
    /\ vOut = NoReport

\* the tail of executeCorsCheck, or of the try block of executeTlsCheck
Report ==
    /\ vOut = NoReport
    /\ vOut' = IF vIn.kind = "cors"
               THEN [kind |-> "cors", severity |-> CorsSeverity(vIn.results)]
               ELSE [kind |-> "tls",
                     stored |-> redactOutput(vIn.output),
                     summary |-> parseTlsSummary(vIn.output)]
    /\ UNCHANGED <<approvedDomains, dns, status, target, toolName,
                   backendActiveExecutions, maxRequestsPerRun, activeExecutions,
                   requestCount, pc, it, err, cancelSeen, validated, lastConn,
                   ops, timerFired, cancelAccepted, redactions, timeVars, vIn,
                   attemptsMade, enqueueResult>>

NextX ==
    Report

SpecX ==
    InitX /\ [][NextX]_vars

(***************************************************************************)
(* Properties                                                              *)
(***************************************************************************)
IsIPv4Text(a) ==
    Includes(a, <<".">>) /\ ~Includes(a, <<":">>)

S_mapped ==
    <<":",":","f","f","f","f",":">>

\* The blocked ranges: the IPv4 list of BLOCKED_IP_RANGES, and for IPv6
\* ::1, fe80::/10, fc00::/7 and the IPv4-mapped addresses of a blocked IPv4
\* address (addresses in the compressed lower-case text the resolver gives)
BlockedAddress(a) ==
    LET g == Split(a, ":")[1]
    IN  IF IsIPv4Text(a) THEN IsPrivateIPv4(a)
        ELSE \/ a = <<":",":","1">>
             \/ /\ StartsWith(a, S_mapped)
                /\ IsPrivateIPv4(SubSeq(a, Len(S_mapped) + 1, Len(a)))
             \/ /\ Len(g) = 4
                /\ g[1] = "f"
                /\ \/ g[2] = "e" /\ g[3] \in {"8", "9", "a", "b"}
                   \/ g[2] \in {"c", "d"}

\* C1: every address a probe's outbound operation connects to is one that
\* the validation of its run (at enqueue) resolved, and is not blocked,
\* whatever the resolver answers between enqueue and the probe's request.
C1_ProbesReachOnlyValidatedAddresses ==
    lastConn.run # 0 =>
        /\ lastConn.addr \in AnswerAddresses(validated[lastConn.run])
        /\ ~BlockedAddress(lastConn.addr)

\* C2: a run whose status is RUNNING was validated: its target passed host
\* validation, the scope check and DNS resolution, with at least one
\* resolved address and no blocked address among those resolved.
C2_RunningWasValidated ==
    \A r \in Runs :
        status[r] = "RUNNING" =>
            /\ validated[r] # "none"
            /\ ValidateToolTarget(target[r], approvedDomains, DnsAnswer(validated[r])).ok
            /\ AnswerAddresses(validated[r]) # {}
            /\ \A a \in AnswerAddresses(validated[r]) : ~BlockedAddress(a)

\* C3: the worker validates the target again at dequeue: a run is set to
\* RUNNING only if its target passes validation against the approved
\* domains and the resolver's answer of that moment (else it goes to FAILED
\* without being RUNNING).
C3_RevalidatedAtDequeue ==
    [][\A r \in Runs :
          (status[r] # "RUNNING" /\ status'[r] = "RUNNING") =>
              ValidateToolTarget(target[r], approvedDomains, DnsAnswer(dns)).ok]_vars

\* C4: with MaxRuns jobs started together and interleaved at every await,
\* activeExecutions never exceeds maxConcurrent.
C4_ActiveExecutionsBounded ==
    activeExecutions <= maxConcurrent

\* the limit is reached and a further job waits for a slot
C4_Witness ==
    /\ activeExecutions = maxConcurrent
    /\ Cardinality(HoldingSlot) = maxConcurrent
    /\ \E r \in Runs : pc[r] = "waitSlot"

\* C5: activeExecutions equals the number of jobs that returned from
\* waitForExecutionSlot and have not called releaseExecutionSlot; it is
\* never negative, every job releases its slot on every exit path, and the
\* counter is 0 when no job is executing.
C5_ActiveExecutionsCountsHolders ==
    /\ activeExecutions = Cardinality(HoldingSlot)
    /\ activeExecutions >= 0
    /\ (InProcess = {} => activeExecutions = 0)

\* all jobs have left the processor: one COMPLETED, one FAILED, and one
\* whose status update threw in the try block and again in the catch block
C5_Witness ==
    /\ \A r \in Runs : pc[r] = "done"
    /\ activeExecutions = 0
    /\ \E r \in Runs : status[r] = "COMPLETED"
    /\ \E r \in Runs : status[r] = "FAILED" /\ err[r] = "limit"
    /\ \E r \in Runs : status[r] = "RUNNING" /\ err[r] \in ExternalErrors

C7_TimerFiredMeansTimeout ==
    \A r \in Runs :
        (pc[r] = "done" /\ timerFired[r] /\ status[r] # "CANCELLED")
            => status[r] = "TIMEOUT"

\* C8: once COMPLETED, FAILED, TIMEOUT or CANCELLED is stored, no cancel
\* request and no write of the worker changes the status; the status moves
\* only forward along QUEUED, RUNNING, terminal.
C8_TerminalStatusImmutable ==
    [][\A r \in Runs :
          /\ (status[r] \in TerminalStatuses => status'[r] = status[r])
          /\ (status[r] = "RUNNING" => status'[r] # "QUEUED")]_vars

\* C9: after a cancel request was accepted for a QUEUED or RUNNING run no
\* further outbound operation is issued for it, and the stored status
\* becomes and stays CANCELLED: no later write stores another status.
C9_CancelStopsRun ==
    [][\A r \in Runs :
          cancelAccepted[r] =>
              /\ ops'[r] = ops[r]
              /\ status'[r] \in {status[r], "CANCELLED"}]_vars

\* C10: validation rejects the target when any resolved A or AAAA address
\* is blocked, in whatever position, and so succeeds only if every resolved
\* address is public.
C10_RejectsAnyBlockedAddress ==
    vOut # NoResult =>
        ((\E a \in AnswerAddresses(vIn.answer) : BlockedAddress(a)) => ~vOut.ok)


\* C11: when the waitForRequestSlot calls for a run id are made one after
\* the other, each call after the first is granted at least minDelayMs
\* after the call before it (the successive lastRequestTime values).
C11_SequentialGrantsSpaced ==
    [][(requestCount'[TimedRun] # requestCount[TimedRun] /\ requestCount[TimedRun] > 0)
          => lastRequestTime'[TimedRun] - lastRequestTime[TimedRun] >= minDelayMs]_vars

\* a call slept and was granted exactly minDelayMs after the one before it
C11_Witness ==
    /\ requestCount[TimedRun] = 2
    /\ callPc[1] = "granted"
    /\ wakeAt[1] = lastRequestTime[TimedRun]
    /\ lastRequestTime[TimedRun] = StartClock + minDelayMs


\* C12: every text a probe hands to storage.uploadToolOutput has been
\* passed through redactOutput exactly once, for every probe type.
C12_UploadsRedactedOnce ==
    \A r \in Runs : redactions[r] # NotUploaded => redactions[r] = 1


\* C13: the worker executes each run at most once: a job that has left the
\* processor is never taken again, a run whose stored status is FAILED or
\* TIMEOUT has left the try block for good, and no outbound operation is
\* issued for a run after its catch block.
C13_ExecutedAtMostOnce ==
    /\ [](\A r \in Runs :
             /\ attemptsMade[r] <= 1
             /\ (status[r] \in {"FAILED", "TIMEOUT"} => pc[r] \in {"finally", "done"}))
    /\ [][\A r \in Runs :
             /\ (pc[r] = "done" => pc'[r] = "done")
             /\ (pc[r] \in {"catch", "finally", "done"} => ops'[r] = ops[r])
             /\ (pc'[r] = "execute" /\ pc[r] # "execute" => attemptsMade[r] = 0)]_vars

\* a run that issued requests, failed on the request limit and is over
C13_Witness ==
    \E r \in Runs :
        /\ status[r] = "FAILED"
        /\ pc[r] = "done"
        /\ attemptsMade[r] = 1
        /\ ops[r] > 0


\* C14: an enqueue call that ends in a rejection (assessment not found, no
\* approved domains, target rejected, concurrency limit, tool not in the
\* enumeration) or is a dry run creates no record, adds no job and takes no
\* execution slot and no request counter; a record is created only QUEUED,
\* for a tool of the enumeration, by a call that passed every test.
C14_RejectedEnqueueChangesNothing ==
    /\ [][(enqueueResult' # enqueueResult /\ enqueueResult' # "queued") =>
             UNCHANGED <<status, target, toolName, pc, validated,
                         activeExecutions, backendActiveExecutions,
                         requestCount, lastRequestTime, attemptsMade>>]_vars
    /\ [][\A r \in Runs :
             (status[r] = "none" /\ status'[r] # "none") =>
                 /\ enqueueResult' = "queued"
                 /\ status'[r] = "QUEUED"
                 /\ pc'[r] = "queued"
                 /\ toolName'[r] \in ToolNames
                 /\ Len(approvedDomains) > 0
                 /\ CanStartExecution
                 /\ ValidateToolTarget(target'[r], approvedDomains, DnsAnswer(dns)).ok]_vars
    /\ [](\A r \in Runs :
             /\ (status[r] = "none" => pc[r] = "none" /\ requestCount[r] = 0)
             /\ (status[r] # "none" => toolName[r] \in ToolNames))

\* the last enqueue call was rejected at the concurrency limit and no
\* record exists
C14_Witness ==
    /\ enqueueResult = "concurrencyLimit"
    /\ backendActiveExecutions = maxConcurrent
    /\ \A r \in Runs : status[r] = "none"

\* the host validateToolTarget hands to the scope check for the input vIn
ScopeCheckedHost ==
    ValidateUrl(IF Includes(vIn.target, <<":","/","/">>) THEN vIn.target
                ELSE S_https \o vIn.target)

\* the entry a of the approved list covers the host h: a is a valid host
\* and h is a, or h ends with "." a and both have the same registrable domain
EntryCovers(h, entry) ==
    LET a == ValidateHost(entry)
        n == Len(a.normalizedHost)
    IN  /\ a.ok
        /\ \/ h = a.normalizedHost
           \/ /\ Len(h) > n + 1
              /\ SubSeq(h, Len(h) - n + 1, Len(h)) = a.normalizedHost
              /\ h[Len(h) - n] = "."
              /\ PslParse(h).domain = PslParse(a.normalizedHost).domain

\* C15: for a valid host h and an approved list A the scope check accepts
\* h exactly when some valid entry a of A has h = a, or h ends with "." a
\* with the same registrable domain; "sub." a is accepted, and "evil" a is
\* rejected when no other entry covers it.
C15_ScopeAcceptsExactlyCoveredHosts ==
    (vOut # NoResult /\ ScopeCheckedHost.ok) =>
        LET h == ScopeCheckedHost.normalizedHost
            A == vIn.approved
            covered == \E i \in 1..Len(A) : EntryCovers(h, A[i])
        IN  /\ ValidateTargetInScope(h, A) <=> covered
            /\ vOut.reason = "scope" <=> ~covered
            /\ \A i \in 1..Len(A) :
                   ValidateHost(A[i]).ok =>
                       /\ h = <<"s","u","b",".">> \o A[i] => vOut.reason # "scope"
                       /\ ValidateTargetInScope(<<"s","u","b",".">> \o A[i], A)
                       /\ (h = <<"e","v","i","l">> \o A[i] /\ ~covered)
                              => vOut.reason = "scope"
                       /\ ~ValidateTargetInScope(<<"e","v","i","l">> \o A[i], <<A[i]>>)

\* "evilsub.approved.com" was checked against the list holding
\* sub.approved.com and rejected as out of scope
C15_Witness ==
    /\ vIn # NoInput
    /\ vIn.target = T_EVILSUB
    /\ vIn.approved = <<T_SUB>>
    /\ vOut.reason = "scope"

\* C16: with an empty approved-domain list the scope validation rejects
\* every target, every enqueue call ends in a rejection, and no run record
\* exists or is created.
C16_EmptyScopeFailsClosed ==
    /\ [](Len(approvedDomains) = 0 =>
             /\ \A t \in Targets :
                    /\ ~ValidateTargetInScope(t, approvedDomains)
                    /\ ~ValidateToolTarget(t, approvedDomains, DnsAnswer(dns)).ok
             /\ enqueueResult \in {"none", "notFound", "noApprovedDomains"}
             /\ \A r \in Runs : status[r] = "none" /\ pc[r] = "none")
    /\ [][Len(approvedDomains) = 0 =>
             UNCHANGED <<status, target, toolName, pc>>]_vars

\* an enqueue call was made for an assessment without approved domains and
\* was rejected for that
C16_Witness ==
    /\ Len(approvedDomains) = 0
    /\ enqueueResult = "noApprovedDomains"
    /\ \A r \in Runs : status[r] = "none"

\* the targets that are IP literals (dotted, compressed, bracketed) or
\* malformed host names
LiteralOrMalformedTargets ==
    {T_IP, A_LL6, T_BRACKET, T_MALFORMED, T_LOCAL, T_SUFFIX}

\* C17: target validation calls the resolver only after the host validation
\* and the scope check have both succeeded; a target that is an IP literal,
\* is malformed or is out of scope is rejected with no resolver call made.
C17_DnsOnlyAfterHostAndScope ==
    vOut # NoResult =>
        LET h == ScopeCheckedHost.normalizedHost
            A == vIn.approved
            covered == \E i \in 1..Len(A) : EntryCovers(h, A[i])
        IN  /\ vOut.queried # <<>> => ScopeCheckedHost.ok /\ covered
            /\ ~(ScopeCheckedHost.ok /\ covered) =>
                   ~vOut.ok /\ vOut.queried = <<>>
            /\ vIn.target \in LiteralOrMalformedTargets =>
                   ~ScopeCheckedHost.ok /\ ~vOut.ok /\ vOut.queried = <<>>
            /\ (ScopeCheckedHost.ok /\ covered) => vOut.queried[1] = "resolve4"

\* 192.168.1.5 was validated against a list that holds 192.168.1.5 and a
\* name whose records are private: rejected, no resolver call
C17_Witness ==
    /\ vIn # NoInput
    /\ vIn.target = T_IP
    /\ vIn.approved = <<T_IP, D_EXAMPLE>>
    /\ vIn.answer = "private"
    /\ ~vOut.ok
    /\ vOut.reason = "ip"
    /\ vOut.queried = <<>>

\* the IPv4 address with the octets o lies in one of the fourteen listed
\* blocks
InListedBlock(o) ==
    \/ o[1] = 0
    \/ o[1] = 10
    \/ o[1] = 100 /\ o[2] \in 64..127
    \/ o[1] = 127
    \/ o[1] = 169 /\ o[2] = 254
    \/ o[1] = 172 /\ o[2] \in 16..31
    \/ o[1] = 192 /\ o[2] = 0 /\ o[3] = 0
    \/ o[1] = 192 /\ o[2] = 0 /\ o[3] = 2
    \/ o[1] = 192 /\ o[2] = 168
    \/ o[1] = 198 /\ o[2] \in 18..19
    \/ o[1] = 198 /\ o[2] = 51 /\ o[3] = 100
    \/ o[1] = 203 /\ o[2] = 0 /\ o[3] = 113
    \/ o[1] \in 224..239
    \/ o[1] \in 240..255

\* C18: for an IPv4 address a.b.c.d ipToNumber is the unsigned 32-bit
\* value a*2^24 + b*2^16 + c*2^8 + d (high half a*256 + b, low half
\* c*256 + d), also for a >= 128, and isPrivateIPv4 is true exactly for the
\* addresses of the fourteen listed blocks.
C18_Ipv4NumberAndRanges ==
    (vOut # NoAddressResult /\ vIn.family = 4) =>
        LET o == vIn.octets
        IN  /\ vOut.num = <<o[1] * 256 + o[2], o[3] * 256 + o[4]>>
            /\ vOut.private <=> InListedBlock(o)

\* 192.168.255.255, whose 32-bit shift is negative, was converted and found
\* private
C18_Witness ==
    /\ vIn.family = 4
    /\ vIn.octets = <<192, 168, 255, 255>>
    /\ vOut.num = <<49320, 65535>>
    /\ vOut.private

\* the AAAA record is ::1, or its first group is in fe80::/10 (fe80..febf)
\* or in fc00::/7 (fc00..fdff)
InListedV6Block(rec) ==
    LET g == ToLowerCase(rec.group)
    IN  IF rec.octets # <<>> THEN FALSE
        ELSE IF g = <<>> THEN TRUE
        ELSE /\ g[1] = "f"
             /\ \/ g[2] = "e" /\ g[3] \in {"8", "9", "a", "b"}
                \/ g[2] \in {"c", "d"}

\* C19: the IPv6 check rejects ::1, every address of fe80::/10, every
\* address of fc00::/7 and every IPv4-mapped address whose embedded IPv4
\* address is blocked; an IPv4-mapped address is rejected exactly when the
\* IPv4 check rejects the embedded address.
C19_Ipv6BlocksCovered ==
    (vOut # NoAddressResult /\ vIn.family = 6) =>
        /\ InListedV6Block(vIn) => vOut.private
        /\ vIn.octets # <<>> =>
               /\ vOut.private <=> IsPrivateIPv4(DottedText(vIn.octets))
               /\ vOut.private <=> InListedBlock(vIn.octets)

\* C20: when waitForRequestSlot calls for the same run id overlap at the
\* sleep, requestCount still never exceeds maxRequestsPerRun and each call
\* after the first is still granted at least minDelayMs after the one
\* granted before it.
C20_ConcurrentCallsSafe ==
    /\ [](requestCount[TimedRun] <= maxRequestsPerRun)
    /\ [][(requestCount'[TimedRun] # requestCount[TimedRun]
            /\ requestCount[TimedRun] > 0
            /\ \E c \in Callers : callPc[c] = "sleeping")
              => lastRequestTime'[TimedRun] - lastRequestTime[TimedRun] >= minDelayMs]_vars

\* C21: a step of waitForRequestSlot(r) or resetRunState(r) changes only
\* run r's lastRequestTime and requestCount: every other run's state and
\* activeExecutions stay as they are, however the runs' calls interleave.
C21_RunStateIsolated ==
    [][\A r \in Runs :
          (requestCount'[r] # requestCount[r] \/ lastRequestTime'[r] # lastRequestTime[r]) =>
              /\ \A q \in Runs \ {r} :
                     /\ requestCount'[q] = requestCount[q]
                     /\ lastRequestTime'[q] = lastRequestTime[q]
              /\ activeExecutions' = activeExecutions]_vars

\* run 1 was granted its first request after a reset while run 2, granted
\* two requests before, has a call asleep
C21_Witness ==
    /\ requestCount[1] = 1
    /\ lastRequestTime[1] > lastRequestTime[2]
    /\ callPc[1] = "granted"
    /\ requestCount[2] = 2
    /\ callPc[2] = "sleeping"

\* C22: redactText is idempotent: a second pass over the redacted text
\* gives the same text and finds no match (its redactionCount is 0).
C22_RedactTextIdempotent ==
    (vOut # NoRedaction /\ vOut.kind = "text") =>
        /\ vOut.second.redacted = vOut.first.redacted
        /\ vOut.second.redactionCount = 0

\* the value of the entry at the innermost nesting level of a redactJson
\* input or result
RECURSIVE InnermostEntry(_)
InnermostEntry(value) ==
    IF value.kind = "array" THEN InnermostEntry(value.items[1])
    ELSE IF value.entries[1].k = <<"h","o","s","t">> /\ value.entries[1].v.kind \in {"object", "array"}
         THEN InnermostEntry(value.entries[1].v)
    ELSE value.entries[1]

\* C23: redactJson replaces with "[REDACTED]" the whole value of every key
\* whose name is in the sensitive-field set, at any nesting depth, whatever
\* the (non-null) value is.
C23_SensitiveKeysRedacted ==
    (vOut # NoRedaction /\ vOut.kind = "json") =>
        LET in == InnermostEntry(vIn.data)
            out == InnermostEntry(vOut.data)
        IN  (in.k \in sensitiveFields /\ in.v.kind # "null") =>
                out.v = [kind |-> "string", text |-> S_REDACTED]

\* C24: a TLS_CHECK run whose certificate retrieval failed (the operation
\* rejected or its timer fired, so that no output was handed to the upload)
\* never has the status COMPLETED.
C24_TlsFailureFailsRun ==
    \A r \in Runs :
        (toolName[r] = "TLS_CHECK" /\ status[r] = "COMPLETED") =>
            /\ ~timerFired[r]
            /\ redactions[r] # NotUploaded

\* C25: when a probe has returned its result, the requestCount of the
\* result equals the number of waitForRequestSlot calls made for the run
\* and the number of outbound operations issued for it.
C25_ReportedCountIsRequestsMade ==
    \A r \in Runs :
        (pc[r] = "done" /\ err[r] = "none") =>
            /\ ReportedRequestCount(toolName[r]) = requestCount[r]
            /\ ReportedRequestCount(toolName[r]) = ops[r]

\* C26: the CORS check reports 'high' exactly when one response both echoes
\* the Origin of its own request and allows credentials, otherwise 'medium'
\* when some response allows '*', otherwise 'info'
C26_CorsSeverityPerResponse ==
    vOut.kind = "cors" =>
        vOut.severity =
            IF \E i \in 1..Len(vIn.results) :
                   /\ vIn.results[i].allowOrigin = vIn.results[i].origin
                   /\ vIn.results[i].allowCredentials = "true"
            THEN "high"
            ELSE IF \E i \in 1..Len(vIn.results) : vIn.results[i].allowOrigin = "*"
            THEN "medium"
            ELSE "info"

\* C27: the summary stored for a TLS check holds no e-mail address
C27_StoredSummaryHasNoSecret ==
    vOut.kind = "tls" => ~ContainsEmail(vOut.summary)

\* C28: enqueue accepts a run only while fewer than maxConcurrent runs hold
\* an execution slot in the worker (at the limit it rejects with 'Maximum
\* concurrent tool executions reached')
C28_EnqueueRejectsAtWorkerLimit ==
    [][\A r \in Runs :
          (status[r] = "none" /\ status'[r] = "QUEUED") =>
              Cardinality(HoldingSlot) < maxConcurrent]_vars

\* C30: with the worker's concurrency equal to maxConcurrent, a job that
\* calls waitForExecutionSlot finds activeExecutions below maxConcurrent
C30_ExecutionSlotNeverWaits ==
    \A r \in Runs : pc[r] = "waitSlot" => activeExecutions < maxConcurrent

\* a job calls waitForExecutionSlot while another holds a slot and a third
\* waits in the queue
C30_Witness ==
    /\ pc[2] = "waitSlot"
    /\ pc[1] \in {"outbound", "upload"}
    /\ activeExecutions = maxConcurrent - 1
    /\ pc[3] = "queued"

\* C29: a job the worker has started ends with a terminal status stored
\* and its execution slot released
C29_StartedJobTerminates ==
    \A r \in Runs :
        (pc[r] = "waitSlot") ~>
            (/\ pc[r] = "done"
             /\ status[r] \in {"COMPLETED", "FAILED", "TIMEOUT"}
             /\ r \notin HoldingSlot)

\* every job is finished, one of them failed and one completed, and no
\* slot is held
C29_Witness ==
    /\ \A r \in Runs : pc[r] = "done" /\ status[r] \in {"COMPLETED", "FAILED", "TIMEOUT"}
    /\ \E r \in Runs : status[r] = "FAILED"
    /\ \E r \in Runs : status[r] = "COMPLETED"
    /\ activeExecutions = 0


====
